---- MODULE Spec2Model ----
(***************************************************************************)
(* Verification model of the devenv cloud job runner: the control plane's  *)
(* job table and runner connection hub (backend/src/job, backend/src/      *)
(* runner, backend/src/github) together with the runner agent that talks   *)
(* to it (runner/src/bin/runner.rs, runner/src/job_manager.rs,             *)
(* runner/src/vm_manager.rs, runner/src/resource_manager.rs).              *)
(***************************************************************************)
EXTENDS Integers, Sequences, FiniteSets, TLC

(***************************************************************************)
(* Bounds of the model.                                                    *)
(***************************************************************************)
\* rows the jobs table may hold (ids are 1..MaxJobs, in creation order)
MaxJobs == 2
\* jobs created by pushes (the others are created by retries)
MaxPushed == 1
\* websocket connections accepted over a run (each one inserts a runner row)
MaxRunners == 2
\* runner agent processes
NumAgents == 2
\* capacity of a runner's outbound mpsc channel, scaled down from the 32 of
\* spawn_runner so that a full channel is reachable
ChanCap == 1
\* frames written by the server to one websocket and not yet read by the agent
MaxWire == 2
\* job.timeout_seconds of the configuration, in clock ticks
TimeoutSeconds == 0
\* the clock runs from 1 to TimeoutSeconds + ClockSpan
ClockSpan == 2
\* cpus of the agent's host (ResourceLimits.max_cpus)
HostCpus == 2

NULL == 0

JobIds    == 1..MaxJobs
RunnerIds == 1..MaxRunners
Agents    == 1..NumAgents
MaxTime   == TimeoutSeconds + ClockSpan

\* Push events handled, and VM descriptors a devenv.yaml can name
MaxCommits == 2
MaxVms == 2

\* Allocations a resource manager is asked for, and the cpus of a request
MaxAllocs == 3
MaxCpuReq == 2
AllocIds == 1..MaxAllocs

\* Shutdown commands waiting in a VM's control channel (scaled down from the
\* 10 of launch_vm), and the addresses of the IP pool (scaled down from 253)
MaxCmds == 2
MaxIps == 2

\* POST requests to a log session, and the lines of a request body
MaxPosts == 2
MaxBody == 3

\* Connections of the guest to the control channel of a VM, and the log lines
\* it forwards
MaxConns == 2
MaxLogs == 2

\* IpGuards created over a run
MaxIpGuards == 4

\* capacity of the job status channel, scaled down from the 100 of the agent's
\* main so that a full channel is reachable
StatusCap == 2

\* rows of the jobs table when one job is retried repeatedly
MaxRetryRows == 3

\* The hex digits of the line number in a key of the log store
KeyWidth == 16

VmExitStatus == {"Success", "Failure"}

\* Jobs in the table when runners ask for them
MaxDispatched == 3

(***************************************************************************)
(* protocol.rs: Platform, JobStatus, CompletionStatus, VM, messages.       *)
(***************************************************************************)
X86_64Linux   == "x86_64-linux"
AArch64Darwin == "aarch64-darwin"
Platform      == {X86_64Linux, AArch64Darwin}

CompletionStatus == {"Failed", "Success", "Cancelled", "TimedOut", "Skipped"}
Queued      == [tag |-> "Queued"]
Running     == [tag |-> "Running"]
Complete(c) == [tag |-> "Complete", c |-> c]
JobStatus   == {Queued, Running} \cup {Complete(c) : c \in CompletionStatus}

\* memory of the agent's host in MiB (ResourceLimits.max_memory_bytes)
HostMemoryMb == 1024

\* the VM descriptors a cloud-config can ask for in this model
VMs == { [cpu_count |-> 1, memory_size_mb |-> 256, platform |-> X86_64Linux],
         [cpu_count |-> 2, memory_size_mb |-> 512, platform |-> AArch64Darwin] }

NewJobAvailable(id, vm) == [type |-> "NewJobAvailable", id |-> id, vm |-> vm]
JobClaimed(id, vm)      == [type |-> "JobClaimed", id |-> id, vm |-> vm]
JobTimedOut(id)         == [type |-> "JobTimedOut", id |-> id]
JobCancelled(id)        == [type |-> "JobCancelled", id |-> id]

ClaimJob(id, vm)            == [type |-> "ClaimJob", id |-> id, vm |-> vm]
UpdateJobStatus(id, status) == [type |-> "UpdateJobStatus", id |-> id, status |-> status]
RequestJob                  == [type |-> "RequestJob"]

(***************************************************************************)
(* job/model.rs: the text form of JobStatus in the jobs.status column.     *)
(***************************************************************************)
to_sql(status) ==
    CASE status = Queued               -> "queued"
      [] status = Running              -> "running"
      [] status = Complete("Failed")    -> "failed"
      [] status = Complete("Success")   -> "success"
      [] status = Complete("Cancelled") -> "cancelled"
      [] status = Complete("TimedOut")  -> "timed_out"
      [] status = Complete("Skipped")   -> "skipped"

from_sql(text) ==
    CASE text = "queued"    -> Queued
      [] text = "running"   -> Running
      [] text = "failed"    -> Complete("Failed")
      [] text = "success"   -> Complete("Success")
      [] text = "cancelled" -> Complete("Cancelled")
      [] text = "timed_out" -> Complete("TimedOut")
      [] text = "skipped"   -> Complete("Skipped")

(***************************************************************************)
(* SQL over the jobs table.  The table is the sequence of its rows in      *)
(* insertion order; ids are time-ordered (Uuid::now_v7), so a row's id is  *)
(* its position.                                                           *)
(***************************************************************************)
RowsWhere(tbl, P(_)) == {i \in DOMAIN tbl : P(tbl[i])}

UpdateWhere(tbl, P(_), Set(_)) ==
    [i \in DOMAIN tbl |-> IF P(tbl[i]) THEN Set(tbl[i]) ELSE tbl[i]]

\* Job::new (the insert; the columns not named take the schema's defaults)
Job_new(id, platform, cpus, memory_mb) ==
    [id |-> id, platform |-> platform, status |-> to_sql(Queued),
     started_at |-> NULL, finished_at |-> NULL, runner_id |-> NULL,
     cpus |-> cpus, memory_mb |-> memory_mb,
     retried_job_id |-> NULL, previous_job_id |-> NULL]

\* Job::complete: UPDATE jobs SET finished_at = now, status = .. WHERE id = ..
complete(tbl, job_id, completion_status, t) ==
    UpdateWhere(tbl, LAMBDA row : row.id = job_id,
                LAMBDA row : [row EXCEPT !.finished_at = t,
                                         !.status = to_sql(Complete(completion_status))])

\* Job::find_expired_jobs: the ids of the rows selected, in id order
find_expired_jobs(tbl, t, timeout_seconds) ==
    RowsWhere(tbl, LAMBDA row : /\ row.status = to_sql(Running)
                                /\ row.started_at # NULL
                                /\ row.started_at < t - timeout_seconds)

\* Job::claim_job_for_runner with the status filter dropped
claim_job_for_runner_unfiltered(tbl, job_id, runner_id) ==
    [rows |-> Cardinality(RowsWhere(tbl, LAMBDA row : row.id = job_id)),
     tbl  |-> UpdateWhere(tbl, LAMBDA row : row.id = job_id,
                 LAMBDA row : [row EXCEPT !.status = to_sql(Running),
                                          !.runner_id = runner_id])]

\* Job::claim_job_for_runner: the rows changed and the table afterwards
claim_job_for_runner(tbl, job_id, runner_id) ==
    [rows |-> Cardinality(RowsWhere(tbl,
                 LAMBDA row : row.id = job_id /\ row.status = to_sql(Queued))),
     tbl  |-> UpdateWhere(tbl,
                 LAMBDA row : row.id = job_id /\ row.status = to_sql(Queued),
                 LAMBDA row : [row EXCEPT !.status = to_sql(Running),
                                          !.runner_id = runner_id])]

\* Job::update_job_status
update_job_status(tbl, job_id, status) ==
    UpdateWhere(tbl, LAMBDA row : row.id = job_id,
                LAMBDA row : [row EXCEPT !.status = to_sql(status)])

Min(S) == CHOOSE x \in S : \A y \in S : x <= y

\* the query ordered by descending id
find_newest_queued_job(tbl, platform, locked) ==
    LET found == RowsWhere(tbl, LAMBDA row : /\ row.id \notin locked
                                             /\ row.status = to_sql(Queued)
                                             /\ row.runner_id = NULL
                                             /\ row.platform = platform)
    IN  IF found = {} THEN NULL ELSE CHOOSE x \in found : \A y \in found : y <= x

\* Job::find_queued_job_for_platform: the id of the row found, or NULL.
\* locked is the rows that transactions running at the same time hold a lock
\* on (FOR UPDATE SKIP LOCKED).
find_queued_job_for_platform(tbl, platform, locked) ==
    LET found == RowsWhere(tbl, LAMBDA row : /\ row.id \notin locked
                                             /\ row.status = to_sql(Queued)
                                             /\ row.runner_id = NULL
                                             /\ row.platform = platform)
    IN  IF found = {} THEN NULL ELSE Min(found)

\* Job::is_retryable
is_retryable(job) ==
    /\ from_sql(job.status).tag = "Complete"
    /\ from_sql(job.status).c # "Success"

\* Job::is_cancellable
is_cancellable(job) == from_sql(job.status) \in {Queued, Running}


\* Job::retry with the back link left out of the insert
retry_unlinked(tbl, job) ==
    IF is_retryable(job)
    THEN LET new_id == Len(tbl) + 1
             retried_job == Job_new(new_id, job.platform, job.cpus, job.memory_mb)
         IN  [ok |-> TRUE, retried_job |-> retried_job,
              tbl |-> UpdateWhere(Append(tbl, retried_job),
                          LAMBDA row : row.id = job.id,
                          LAMBDA row : [row EXCEPT !.retried_job_id = new_id])]
    ELSE [ok |-> FALSE, retried_job |-> job, tbl |-> tbl]

\* Job::retry, run by retry_job inside one transaction: the new row and the
\* table afterwards, or the rollback
retry(tbl, job) ==
    IF is_retryable(job)
    THEN LET new_id == Len(tbl) + 1
             retried_job == [Job_new(new_id, job.platform, job.cpus, job.memory_mb)
                                EXCEPT !.previous_job_id = job.id]
         IN  [ok |-> TRUE, retried_job |-> retried_job,
              tbl |-> UpdateWhere(Append(tbl, retried_job),
                          LAMBDA row : row.id = job.id,
                          LAMBDA row : [row EXCEPT !.retried_job_id = new_id])]
    ELSE [ok |-> FALSE, retried_job |-> job, tbl |-> tbl]

\* Job::cancel with the match on the status dropped
cancel_any_status(tbl, job_id, t) ==
    IF job_id \notin DOMAIN tbl
    THEN [found |-> FALSE, did_cancel |-> FALSE, tbl |-> tbl]
    ELSE [found |-> TRUE, did_cancel |-> TRUE,
          tbl |-> complete(tbl, job_id, "Cancelled", t)]

\* Job::cancel: the row is locked, examined and completed in one transaction
cancel(tbl, job_id, t) ==
    IF job_id \notin DOMAIN tbl
    THEN [found |-> FALSE, did_cancel |-> FALSE, tbl |-> tbl]
    ELSE IF from_sql(tbl[job_id].status) \in {Queued, Running}
         THEN [found |-> TRUE, did_cancel |-> TRUE,
               tbl |-> complete(tbl, job_id, "Cancelled", t)]
         ELSE [found |-> TRUE, did_cancel |-> FALSE, tbl |-> tbl]

(***************************************************************************)
(* github/model.rs: SourceControlIntegration::update_status.  It fails     *)
(* before writing when the job has no jobs_github row or the forge call    *)
(* fails (forge_ok is the outcome of the check-run request).               *)
(***************************************************************************)
update_status(tbl, links, forge_ok, status, id, t) ==
    IF id \notin links \/ ~forge_ok
    THEN tbl
    ELSE CASE status = Queued  -> tbl
           [] status = Running ->
                UpdateWhere(tbl, LAMBDA row : row.id = id,
                            LAMBDA row : [row EXCEPT !.started_at = t])
           [] OTHER ->
                UpdateWhere(tbl, LAMBDA row : row.id = id,
                            LAMBDA row : [row EXCEPT !.finished_at = t])

(***************************************************************************)
(* HTTP status codes and the error type of the API (backend/src/error.rs). *)
(***************************************************************************)
OK                    == 200
BAD_REQUEST           == 400
NOT_FOUND             == 404
INTERNAL_SERVER_ERROR == 500

\* Report::into_response: every error report becomes a 500
into_response == INTERNAL_SERVER_ERROR

\* cancel_job answering 200 whatever Job::cancel returned for a found row
cancel_job_response_always_ok(result) ==
    IF ~result.found THEN NOT_FOUND ELSE OK

\* cancel_job: the match on the result of Job::cancel
cancel_job_response(result) ==
    CASE ~result.found     -> NOT_FOUND
      [] result.did_cancel -> OK
      [] OTHER             -> BAD_REQUEST

(***************************************************************************)
(* runner/serve.rs: the connection hub.  The map takes a runner id to the  *)
(* contents of its bounded channel.                                        *)
(***************************************************************************)
\* Sender::try_send on a channel of capacity ChanCap
try_send(chan, msg) ==
    IF Len(chan) < ChanCap THEN [ok |-> TRUE, chan |-> Append(chan, msg)]
                           ELSE [ok |-> FALSE, chan |-> chan]

\* RunnerState::try_send_to
try_send_to(map, runner_id, msg) ==
    IF runner_id \in DOMAIN map
    THEN [success |-> try_send(map[runner_id], msg).ok,
          map |-> [map EXCEPT ![runner_id] = try_send(map[runner_id], msg).chan]]
    ELSE [success |-> FALSE, map |-> map]

\* RunnerState::create_job_notification
create_job_notification(job) ==
    NewJobAvailable(job.id, [cpu_count |-> job.cpus, memory_size_mb |-> job.memory_mb,
                             platform |-> job.platform])

\* the platform query without its platform filter
find_matching_platforms_any(rows, runner_ids, platform) ==
    {r \in runner_ids : r \in DOMAIN rows}

\* Runner::find_matching_platforms
find_matching_platforms(rows, runner_ids, platform) ==
    {r \in runner_ids : r \in DOMAIN rows /\ rows[r] = platform}

\* the task spawned by broadcast_job_available: try_send to every matching
\* runner still in the map
broadcast_send(map, matching_runners, notification) ==
    [r \in DOMAIN map |->
        IF r \in matching_runners THEN try_send(map[r], notification).chan
                                  ELSE map[r]]


(***************************************************************************)
(* The runner agent's own bookkeeping (runner/src/job_manager.rs,          *)
(* runner/src/resource_manager.rs).                                        *)
(***************************************************************************)
NoJob == [tag |-> "None"]

\* the platform an agent advertises in X-Runner-Platform
AgentPlatform(a) == IF a <= 2 THEN X86_64Linux ELSE AArch64Darwin

\* JobManager::update_job_status accepting every transition
update_job_status_unchecked(local, job_id, status) ==
    IF local[job_id] = NoJob \/ local[job_id] = status
    THEN [jobs |-> local, events |-> <<>>]
    ELSE [jobs |-> [local EXCEPT ![job_id] = status],
          events |-> <<[job_id |-> job_id, status |-> status]>>]

\* JobManager::update_job_status: the map afterwards and the events emitted
jm_update_job_status(local, job_id, status) ==
    IF local[job_id] = NoJob \/ local[job_id] = status
    THEN [jobs |-> local, events |-> <<>>]
    ELSE LET transition_allowed ==
                 \/ local[job_id] = Queued /\ status = Running
                 \/ local[job_id] = Queued /\ status = Complete("Cancelled")
                 \/ local[job_id] = Running /\ status.tag = "Complete"
         IN  IF transition_allowed
             THEN [jobs |-> [local EXCEPT ![job_id] = status],
                   events |-> <<[job_id |-> job_id, status |-> status]>>]
             ELSE [jobs |-> local, events |-> <<>>]

\* JobManager::complete_job
complete_job(local, job_id, status) ==
    jm_update_job_status(local, job_id, Complete(status))

RECURSIVE SumOver(_, _)
SumOver(S, f) ==
    IF S = {} THEN 0
    ELSE LET x == CHOOSE y \in S : TRUE IN f[x] + SumOver(S \ {x}, f)

\* Option<usize> of ResourceLimits.max_instances
NoCap == [tag |-> "None"]
Cap(n) == [tag |-> "Some", n |-> n]

\* usize::saturating_sub
saturating_sub(x, y) == IF x >= y THEN x - y ELSE 0

\* ResourceState::new
ResourceState_new == [allocated_cpus |-> 0, allocated_memory |-> 0, jobs |-> <<>>]

\* check_limits without the cpu and the memory it keeps free
check_limits_no_reserve(state, cpus, memory_mb, lim) ==
    /\ lim.max_instances = NoCap \/ Cardinality(DOMAIN state.jobs) < lim.max_instances.n
    /\ state.allocated_cpus + cpus <= lim.max_cpus
    /\ state.allocated_memory + memory_mb <= lim.max_memory_mb

\* check_limits without the instance limit
check_limits_uncapped(state, cpus, memory_mb, lim) ==
    /\ ~(saturating_sub(lim.max_cpus, state.allocated_cpus + 1) < cpus)
    /\ ~(saturating_sub(lim.max_memory_mb, state.allocated_memory + 100) < memory_mb)

\* ResourceState::check_limits: TRUE when there is no rejection reason.
\* state.jobs is the per-job entries, a function from job ids to VM
\* descriptors.  Memory is counted in MiB; the 100 MiB buffer of the code is
\* 100 * 1024 * 1024 bytes.
check_limits(state, cpus, memory_mb, lim) ==
    LET total_instances  == Cardinality(DOMAIN state.jobs)
        available_cpus   == saturating_sub(lim.max_cpus, state.allocated_cpus + 1)
        available_memory == saturating_sub(lim.max_memory_mb,
                                           state.allocated_memory + 100)
    IN  /\ ~(lim.max_instances # NoCap /\ total_instances >= lim.max_instances.n)
        /\ ~(available_cpus < cpus)
        /\ ~(available_memory < memory_mb)

\* ResourceLimits::with_platform_defaults on Linux
with_platform_defaults ==
    [max_cpus |-> HostCpus, max_memory_mb |-> HostMemoryMb, max_instances |-> NoCap]

VARIABLES
    jobs,           \* the jobs table
    jobs_github,    \* the ids of the jobs that have a jobs_github row
    runners_table,  \* the runners table: the platform of each runner row
    runners,        \* RunnerState.runners: runner id -> contents of its channel
    to_agent,       \* per connection, the frames written by the server, unread
    now,            \* chrono::Utc::now()
    limits,         \* the bounds of this run: agents that dial, rows of the jobs table
    http,           \* the response of the API request answered by the last step
    claimed,        \* history: per job, the runners that were sent JobClaimed
    claim,          \* the ClaimJob handled by the last step and its outcome
    conn,           \* per agent, the runner id of its connection, or NULL
    local_jobs,     \* per agent, JobManager.jobs: job id -> status
    vms,            \* per agent and job, the state of the VM supervisor task
    github_commit,  \* the ids of the rows of the github_commit table
    jobs_github_commit, \* jobs_github.commit_id: job id -> commit id
    webhook,        \* the push event handled by the last step and its outcome
    request,        \* the RequestJob frame handled last, and the frames sent in reply
    rm_limits,      \* ResourceManager.limits
    allocation,     \* ResourceManager.allocation: the ResourceState
    guards,         \* per allocation, its ResourceGuard and what became of it
    releases,       \* history: per allocation, the release_job calls that found its entry
    check,          \* the check_limits call of the last step and its outcome
    sup,            \* per job, its VM supervisor (vm_task_impl) and its VM
    control_channels, \* VmManager.control_channels: the jobs with a channel registered
    completion_rx,  \* VmCompletionEvents sent and not yet taken by the completion handler
    emitted,        \* history: per job, the VmCompletionEvents sent for it
    free_ips,       \* ResourceManager.free_ips
    ip_tasks,       \* the IPs of dropped IpGuards whose release task has not run
    job_status_rx,  \* JobStatusEvents sent and not yet taken by the main loop
    main_loop,      \* the main loop of the agent: shutting_down, whether it has ended,
                    \* the jobs it has sent ClaimJob for, and whether its socket is open
    outbox,         \* history: the frames the agent wrote while shutting down
    wrote,          \* the frames the main loop wrote in the last step, when observed
    log_db,         \* the store of the log service: key -> value
    posts,          \* per POST request of the log service, its line_counter and progress
    reader,         \* the reader of the log service: its cursor, its scan, its events
    vsock_server,   \* start_unix_config_server of the VM: listening, notified or stopped
    guest_conns,    \* per guest connection, where handle_guest_connection is
    job_result,     \* LinuxVm.job_result
    stored,         \* history: the stores to job_result
    log_tx,         \* the log lines sent to log_sender
    vm_proc,        \* the cloud-hypervisor process of the VM
    vm_wait,        \* what LinuxVm::wait returned, once it has
    guest_msg,      \* the guest message handled by the last step
    ip_guards,      \* per IpGuard, its state and its address
    final_cloud,    \* the cloud-config handed to FinalCloud::new last, and its result
    jobs_lock,      \* the task that holds the write lock of JobManager.jobs, or "free"
    tasks,          \* the main loop and the completion handler: where each is, and
                    \* the job and the status of the call it is in
    updates,        \* history: per job, the UpdateJobStatus frames the main loop wrote
    launched,       \* history: the jobs whose VM task launch_vm has spawned
    stops,          \* history: the jobs whose stop frame the main loop has read
    guard_job_id    \* per ResourceGuard, the job id it was made with

webhook_vars == <<github_commit, jobs_github_commit, webhook>>

\* The variables that the steps of Spec leave alone
rm_vars == <<rm_limits, allocation, guards, releases, check>>
vmm_vars == <<sup, control_channels, completion_rx, emitted>>
ip_vars == <<free_ips, ip_tasks>>
loop_vars == <<job_status_rx, main_loop, outbox>>
agent_vars == <<vmm_vars, ip_vars, loop_vars>>
log_vars == <<log_db, posts, reader>>

\* The variables of the services that are modelled on their own
vsock_vars == <<vsock_server, guest_conns, job_result, stored, log_tx, vm_proc, vm_wait,
                guest_msg>>
jm_vars == <<jobs_lock, tasks, updates, launched, stops>>
side_vars == <<log_vars, vsock_vars, ip_guards, final_cloud, jm_vars, guard_job_id>>
ext_vars == <<webhook_vars, request, rm_vars, agent_vars, wrote, side_vars>>

vars == <<jobs, jobs_github, runners_table, runners, to_agent, now, limits, http,
          claimed, claim, conn, local_jobs, vms, ext_vars>>

\* The variables of the control plane and of the agent
base_vars == <<jobs, jobs_github, runners_table, runners, to_agent, now, limits, http,
               claimed, claim, conn, local_jobs, vms, webhook_vars, request, rm_vars,
               agent_vars, wrote>>
not_log_vars == <<base_vars, vsock_vars, ip_guards, final_cloud, jm_vars, guard_job_id>>
not_vsock_vars == <<base_vars, log_vars, ip_guards, final_cloud, jm_vars, guard_job_id>>
not_cloud_vars == <<base_vars, log_vars, vsock_vars, ip_guards, jm_vars, guard_job_id>>
not_ip_vars == <<jobs, jobs_github, runners_table, runners, to_agent, now, limits, http,
                 claimed, claim, conn, local_jobs, vms, webhook_vars, request, rm_vars,
                 vmm_vars, loop_vars, wrote, log_vars, vsock_vars, final_cloud, jm_vars,
                 guard_job_id>>
not_jm_vars == <<jobs, jobs_github, runners_table, runners, to_agent, now, limits, http,
                 claimed, claim, conn, vms, webhook_vars, request, rm_vars, sup,
                 control_channels, ip_vars, main_loop, outbox, wrote, log_vars,
                 vsock_vars, ip_guards, final_cloud, guard_job_id>>

NoResponse == [op |-> "none", id |-> NULL, code |-> NULL, did_cancel |-> FALSE]
NoClaim    == [id |-> NULL, runner_id |-> NULL, claimed |-> FALSE]
NoVm       == [state |-> "none", cfg |-> NULL]
NoWebhook  == [commit |-> NULL, vms |-> <<>>, first |-> 0, ok |-> TRUE]
NoRequest  == [runner_id |-> NULL, locked |-> {}, reply |-> <<>>]
NoCheck    == [op |-> "none", cpus |-> 0, memory_mb |-> 0, ok |-> FALSE,
               used_cpus |-> 0, used_memory |-> 0, instances |-> 0]
NoSup      == [pc |-> "none", cmds |-> 0, proc |-> "none", status |-> "none", alloc |-> 0,
               ip |-> 0, cfg |-> [cpu_count |-> 0, memory_size_mb |-> 0, platform |-> "none"],
               told |-> FALSE]
NoGuard    == [state |-> "none", vm |-> [cpu_count |-> 0, memory_size_mb |-> 0]]
NoWrite    == [op |-> "none", id |-> 0, vm |-> NoSup.cfg, frames |-> <<>>]

\* A run has either several agents and the pushed jobs only, or one agent and
\* retried jobs as well.
Limits == {[agents |-> NumAgents, jobs |-> MaxPushed], [agents |-> 1, jobs |-> MaxJobs]}

CoreInit ==
    /\ limits \in Limits
    /\ jobs = <<>>
    /\ jobs_github = {}
    /\ runners_table = <<>>
    /\ runners = <<>>
    /\ to_agent = [r \in RunnerIds |-> <<>>]
    /\ now = 1
    /\ http = NoResponse
    /\ claimed = [j \in JobIds |-> {}]
    /\ claim = NoClaim
    /\ conn = [a \in Agents |-> NULL]
    /\ local_jobs = [a \in Agents |-> [j \in JobIds |-> NoJob]]
    /\ vms = [a \in Agents |-> [j \in JobIds |-> NoVm]]
    /\ github_commit = {}
    /\ jobs_github_commit = <<>>
    /\ webhook = NoWebhook
    /\ request = NoRequest

\* ResourceManager::new
ResourceManager_new ==
    /\ allocation = ResourceState_new
    /\ guards = [g \in AllocIds |-> NoGuard]
    /\ releases = [g \in AllocIds |-> [guard |-> 0, manual |-> 0]]
    /\ check = NoCheck

\* VmManager::new, the IP pool of ResourceManager::new, and the agent's main
\* before its loop
AgentInit ==
    /\ sup = [j \in JobIds |-> NoSup]
    /\ control_channels = {}
    /\ completion_rx = <<>>
    /\ emitted = [j \in JobIds |-> 0]
    /\ free_ips = [i \in 1..MaxIps |-> i]
    /\ ip_tasks = {}
    /\ job_status_rx = <<>>
    /\ main_loop = [shutting_down |-> FALSE, exited |-> FALSE, claiming |-> {},
                    connected |-> TRUE]
    /\ outbox = {}
    /\ wrote = NoWrite

NoPost == [pc |-> "none", line_counter |-> 0, read |-> 0]

LogInit ==
    /\ log_db = <<>>
    /\ posts = [p \in 1..MaxPosts |-> NoPost]
    /\ reader = [pc |-> "none", log_line |-> 0, db_iter |-> <<>>, items_found |-> FALSE,
                 events |-> <<>>]

\* the guest has sent nothing that the host has handled
NoGuestMessage == [conn |-> 0, stage |-> "none", type |-> "none", id |-> 0, success |-> FALSE]

\* LinuxVm::new and set_job_config: job_result is None, the server listens,
\* the cloud-hypervisor process runs and the supervisor waits
VsockInit ==
    /\ vsock_server = "listening"
    /\ guest_conns = [c \in 1..MaxConns |-> [pc |-> "none", end |-> "none"]]
    /\ job_result = [some |-> FALSE, success |-> FALSE]
    /\ stored = 0
    /\ log_tx = 0
    /\ vm_proc = [state |-> "running", exit_code |-> 0]
    /\ vm_wait = "none"
    /\ guest_msg = NoGuestMessage

\* an Option that is None
None == [some |-> FALSE]

\* the Config of a document without a cloud block (serde default)
NoCloud == [memory |-> None, cpus |-> None, platforms |-> None]

NoError == <<>>
CloudOk(vm_list) == [ok |-> TRUE, panic |-> FALSE, vms |-> vm_list, err |-> NoError]

\* no FinalCloud::new yet
NoParse == [cloud |-> NoCloud, parsed |-> FALSE, result |-> CloudOk(<<>>)]

CloudConfigInit == final_cloud = NoParse

\* JobManager::new, the two tasks before their first step
JobManagerInit ==
    /\ jobs_lock = "free"
    /\ tasks = [t \in {"main", "handler"} |->
                   [pc |-> IF t = "main" THEN "select" ELSE "recv", job |-> 0,
                    status |-> Queued]]
    /\ updates = [j \in JobIds |-> 0]
    /\ launched = {}
    /\ stops = {}

\* no IpGuard::new yet
NoIpGuard == [state |-> "unused", ip |-> 0, took |-> 0]

Init ==
    /\ CoreInit
    /\ rm_limits = with_platform_defaults
    /\ ResourceManager_new
    /\ AgentInit
    /\ LogInit
    /\ VsockInit
    /\ ip_guards = [g \in 1..MaxIpGuards |-> NoIpGuard]
    /\ CloudConfigInit
    /\ JobManagerInit
    /\ guard_job_id = [g \in AllocIds |-> NULL]

(***************************************************************************)
(* Control plane: job creation and broadcast.                              *)
(***************************************************************************)
\* RunnerState::broadcast_job_available together with the task it spawns:
\* the runner map afterwards.  runner_ids is the keys of the map read before
\* the task is spawned: a runner that registers later is in the map and not in
\* runner_ids, one that unregisters later is in runner_ids and not in the map.
\* db_ok is whether the task got a connection from the pool and its platform
\* query succeeded.
broadcast_job_available(map, runner_ids, rows, job, db_ok) ==
    IF runner_ids = {} \/ ~db_ok THEN map
    ELSE broadcast_send(map, find_matching_platforms(rows, runner_ids, job.platform),
                        create_job_notification(job))

\* JobGitHub::create_job for one VM descriptor of a pushed commit.  The job
\* row is inserted first; a failure of the forge call returns before the
\* jobs_github row is inserted and before the runners are notified.
CreateJob(vm, runner_ids, forge_ok, db_ok) ==
    /\ Len(jobs) < MaxPushed
    /\ LET job == Job_new(Len(jobs) + 1, vm.platform, vm.cpu_count, vm.memory_size_mb)
       IN  /\ jobs' = Append(jobs, job)
           /\ IF forge_ok
              THEN /\ jobs_github' = jobs_github \cup {job.id}
                   /\ runners' = broadcast_job_available(runners, runner_ids, runners_table,
                                                         job, db_ok)
              ELSE UNCHANGED <<jobs_github, runners>>
    /\ http' = NoResponse
    /\ claim' = NoClaim
    /\ UNCHANGED <<runners_table, to_agent, now, limits, ext_vars, claimed, conn, local_jobs, vms>>

(***************************************************************************)
(* Control plane: one websocket connection (handler, spawn_runner).  A     *)
(* frame written by the agent is handled by spawn_runner in the step that  *)
(* writes it: st is the jobs table, the frames spawn_runner has written to *)
(* the runner's socket, and the ClaimJob frames it handled.                *)
(***************************************************************************)
\* check_and_send_job: the frames it writes to the runner's socket
check_and_send_job(tbl, rows, runner_id, locked) ==
    LET job_id == find_queued_job_for_platform(tbl, rows[runner_id], locked)
    IN  IF job_id = NULL THEN <<>> ELSE <<create_job_notification(tbl[job_id])>>

\* The steps of Spec run their statements one handler at a time: no row is
\* locked when they query (locked = {}).
\* spawn_runner, ClientMessage::ClaimJob
ClaimJobMsg(st, r, msg, forge_ok) ==
    LET res == claim_job_for_runner(st.tbl, msg.id, r)
    IN  IF res.rows = 1
        THEN [tbl |-> update_status(res.tbl, jobs_github, forge_ok, Running, msg.id, now),
              out |-> Append(st.out, JobClaimed(msg.id, msg.vm)),
              log |-> Append(st.log, [id |-> msg.id, runner_id |-> r, claimed |-> TRUE])]
        ELSE [tbl |-> res.tbl, out |-> st.out,
              log |-> Append(st.log, [id |-> msg.id, runner_id |-> r, claimed |-> FALSE])]

\* spawn_runner, ClientMessage::UpdateJobStatus
UpdateJobStatusMsg(st, r, msg, forge_ok) ==
    LET tbl == update_status(update_job_status(st.tbl, msg.id, msg.status),
                             jobs_github, forge_ok, msg.status, msg.id, now)
    IN  [tbl |-> tbl, out |-> st.out \o check_and_send_job(tbl, runners_table, r, {}),
         log |-> st.log]

\* spawn_runner, ClientMessage::RequestJob
RequestJobMsg(st, r) ==
    [st EXCEPT !.out = @ \o check_and_send_job(st.tbl, runners_table, r, {})]

\* spawn_runner, the socket.next() arm, over the frames the agent wrote
RECURSIVE spawn_runner(_, _, _, _)
spawn_runner(st, r, frames, forge_ok) ==
    IF frames = <<>> THEN st
    ELSE LET msg == Head(frames)
             st1 == CASE msg.type = "ClaimJob" -> ClaimJobMsg(st, r, msg, forge_ok)
                      [] msg.type = "UpdateJobStatus" ->
                             UpdateJobStatusMsg(st, r, msg, forge_ok)
                      [] msg.type = "RequestJob" -> RequestJobMsg(st, r)
         IN  spawn_runner(st1, r, Tail(frames), forge_ok)

\* The agent writes frames to its connection.  Without a connection the send
\* fails and is only logged.  read is 1 when the step also takes the frame at
\* the head of the agent's socket.
AgentSend(a, frames, read, forge_ok) ==
    IF conn[a] = NULL
    THEN /\ claim' = NoClaim
         /\ UNCHANGED <<jobs, to_agent, claimed>>
    ELSE LET r == conn[a]
             unread == IF read = 1 THEN Tail(to_agent[r]) ELSE to_agent[r]
             st == spawn_runner([tbl |-> jobs, out |-> <<>>, log |-> <<>>],
                                r, frames, forge_ok)
         IN  /\ Len(unread) + Len(st.out) <= MaxWire
             /\ jobs' = st.tbl
             /\ to_agent' = [to_agent EXCEPT ![r] = unread \o st.out]
             /\ claim' = IF st.log = <<>> THEN NoClaim ELSE st.log[1]
             /\ claimed' = IF st.log # <<>> /\ st.log[1].claimed
                           THEN [claimed EXCEPT ![st.log[1].id] = @ \cup {r}]
                           ELSE claimed

\* ResourceManager: the counters are the sums over the VMs of the agent that
\* hold a ResourceGuard (v is the agent's VM map)
allocated_cpus(v) ==
    SumOver({j \in JobIds : v[j].state = "running"},
            [j \in JobIds |-> IF v[j].state = "running" THEN v[j].cfg.cpu_count ELSE 0])
allocated_memory(v) ==
    SumOver({j \in JobIds : v[j].state = "running"},
            [j \in JobIds |-> IF v[j].state = "running" THEN v[j].cfg.memory_size_mb
                                                          ELSE 0])

\* ResourceManager::can_allocate
can_allocate(v, cpu_count, memory_mb) ==
    check_limits([allocated_cpus |-> allocated_cpus(v),
                  allocated_memory |-> allocated_memory(v),
                  jobs |-> [j \in {k \in JobIds : v[k].state = "running"} |-> v[j].cfg]],
                 cpu_count, memory_mb, with_platform_defaults)

\* ResourceManager::has_minimal_capacity
has_minimal_capacity(v) == can_allocate(v, 1, 0)

\* check_capacity_and_request_job: the frames the agent writes
check_capacity_and_request_job(v) ==
    IF has_minimal_capacity(v) THEN <<RequestJob>> ELSE <<>>

\* The agent dials (WebSocketClient::new, reconnect_websocket) and the server
\* accepts: handler inserts the runner row, spawn_runner registers the channel
\* and runs the initial check_and_send_job; the agent then runs
\* check_capacity_and_request_job, and its RequestJob is answered by a second
\* check_and_send_job.
RunnerConnect(a) ==
    /\ a <= limits.agents
    /\ conn[a] = NULL
    /\ Len(runners_table) < MaxRunners
    /\ LET runner_id == Len(runners_table) + 1
           rows == Append(runners_table, AgentPlatform(a))
           first == check_and_send_job(jobs, rows, runner_id, {})
       IN  /\ runners_table' = rows
           /\ runners' = runners @@ (runner_id :> <<>>)
           /\ to_agent' = [to_agent EXCEPT ![runner_id] =
                  first \o (IF check_capacity_and_request_job(vms[a]) = <<>>
                            THEN <<>> ELSE check_and_send_job(jobs, rows, runner_id, {}))]
           /\ conn' = [conn EXCEPT ![a] = runner_id]
    /\ http' = NoResponse
    /\ claim' = NoClaim
    /\ UNCHANGED <<jobs, jobs_github, now, limits, ext_vars, claimed, local_jobs, vms>>

Connected(r) == r \in DOMAIN runners

\* spawn_runner, the rx.recv() arm: a message queued on the runner's channel
\* is written to its socket
ForwardChannel(r) ==
    /\ Connected(r)
    /\ runners[r] # <<>>
    /\ Len(to_agent[r]) < MaxWire
    /\ to_agent' = [to_agent EXCEPT ![r] = Append(@, Head(runners[r]))]
    /\ runners' = [runners EXCEPT ![r] = Tail(@)]
    /\ http' = NoResponse
    /\ claim' = NoClaim
    /\ UNCHANGED <<jobs, jobs_github, runners_table, now, limits, ext_vars, claimed, conn,
                   local_jobs, vms>>

\* The connection is lost: spawn_runner leaves its loop and unregisters the
\* runner, the frames in flight are lost, and the agent's read returns None.
Disconnect(r) ==
    /\ Connected(r)
    /\ runners' = [x \in DOMAIN runners \ {r} |-> runners[x]]
    /\ to_agent' = [to_agent EXCEPT ![r] = <<>>]
    /\ conn' = [a \in Agents |-> IF conn[a] = r THEN NULL ELSE conn[a]]
    /\ http' = NoResponse
    /\ claim' = NoClaim
    /\ UNCHANGED <<jobs, jobs_github, runners_table, now, limits, ext_vars, claimed,
                   local_jobs, vms>>

(***************************************************************************)
(* Control plane: the job API (job/serve.rs).                              *)
(***************************************************************************)
\* POST /{id}/cancel
CancelJob(id, forge_ok) ==
    LET result == cancel(jobs, id, now)
        code == cancel_job_response(result)
    IN  /\ IF code = OK
           THEN LET runner_id == result.tbl[id].runner_id
                    sent == try_send_to(runners, runner_id, JobCancelled(id))
                IN  /\ runners' = IF runner_id # NULL THEN sent.map ELSE runners
                    /\ jobs' = update_status(result.tbl, jobs_github, forge_ok,
                                             Complete("Cancelled"), id, now)
           ELSE /\ jobs' = result.tbl
                /\ UNCHANGED runners
        /\ http' = [op |-> "cancel", id |-> id, code |-> code,
                    did_cancel |-> result.did_cancel]
        /\ claim' = NoClaim
        /\ UNCHANGED <<jobs_github, runners_table, to_agent, now, limits, ext_vars, claimed,
                       conn, local_jobs, vms>>

\* POST /{id}/retry-job.  get_with_github_details fails for an id without a
\* jobs row or without a jobs_github row; every Err becomes a Report.
RetryJob(id, runner_ids, forge_ok, db_ok) ==
    IF id \notin DOMAIN jobs \/ id \notin jobs_github \/ ~is_retryable(jobs[id])
    THEN /\ http' = [op |-> "retry", id |-> id, code |-> into_response,
                     did_cancel |-> FALSE]
         /\ claim' = NoClaim
         /\ UNCHANGED <<jobs, jobs_github, runners_table, runners, to_agent, now, limits, ext_vars,
                        claimed, conn, local_jobs, vms>>
    ELSE /\ Len(jobs) < limits.jobs
         /\ LET result == retry(jobs, jobs[id])
            IN  /\ jobs' = result.tbl
                /\ IF forge_ok
                   THEN /\ jobs_github' = jobs_github \cup {result.retried_job.id}
                        /\ runners' = broadcast_job_available(runners, runner_ids,
                                           runners_table, result.retried_job, db_ok)
                        /\ http' = [op |-> "retry", id |-> id, code |-> OK,
                                    did_cancel |-> FALSE]
                   ELSE /\ UNCHANGED <<jobs_github, runners>>
                        /\ http' = [op |-> "retry", id |-> id, code |-> into_response,
                                    did_cancel |-> FALSE]
         /\ claim' = NoClaim
         /\ UNCHANGED <<runners_table, to_agent, now, limits, ext_vars, claimed, conn,
                        local_jobs, vms>>

(***************************************************************************)
(* Control plane: job_timeout_checker.                                     *)
(***************************************************************************)
\* the body of the loop over the expired jobs with the notification ignored
expire_job_always_complete(st, job, links, forge_ok, t) ==
    IF job.runner_id = NULL THEN st
    ELSE [tbl |-> update_status(complete(st.tbl, job.id, "TimedOut", t), links,
                                forge_ok, Complete("TimedOut"), job.id, t),
          map |-> try_send_to(st.map, job.runner_id, JobTimedOut(job.id)).map]

\* the body of the loop over the expired jobs: st is the jobs table and the
\* runner map
expire_job(st, job, links, forge_ok, t) ==
    IF job.runner_id = NULL THEN st
    ELSE LET sent == try_send_to(st.map, job.runner_id, JobTimedOut(job.id))
         IN  IF sent.success
             THEN [tbl |-> st.tbl, map |-> sent.map]
             ELSE [tbl |-> update_status(complete(st.tbl, job.id, "TimedOut", t), links,
                                         forge_ok, Complete("TimedOut"), job.id, t),
                   map |-> sent.map]

\* the loop over the rows find_expired_jobs returned (expired: their ids; the
\* rows are the ones read by the query, snapshot)
RECURSIVE expire_jobs(_, _, _, _, _, _)
expire_jobs(st, snapshot, expired, links, forge_ok, t) ==
    IF expired = {} THEN st
    ELSE LET id == Min(expired)
         IN  expire_jobs(expire_job(st, snapshot[id], links, forge_ok, t), snapshot,
                         expired \ {id}, links, forge_ok, t)

\* one tick of job_timeout_checker that finds expired jobs
JobTimeoutChecker(forge_ok) ==
    LET expired == find_expired_jobs(jobs, now, TimeoutSeconds)
        st == expire_jobs([tbl |-> jobs, map |-> runners], jobs, expired, jobs_github,
                          forge_ok, now)
    IN  /\ expired # {}
        /\ jobs' = st.tbl
        /\ runners' = st.map
        /\ http' = NoResponse
        /\ claim' = NoClaim
        /\ UNCHANGED <<jobs_github, runners_table, to_agent, now, limits, ext_vars, claimed,
                       conn, local_jobs, vms>>

\* time passes
Tick ==
    /\ now < MaxTime
    /\ now' = now + 1
    /\ http' = NoResponse
    /\ claim' = NoClaim
    /\ UNCHANGED <<jobs, jobs_github, runners_table, runners, to_agent, limits, ext_vars,
                   claimed, conn, local_jobs, vms>>

(***************************************************************************)
(* Runner agent (runner/src/bin/runner.rs).  A step is one arm of the main *)
(* loop or one VM supervisor event, with the job status event it emits     *)
(* carried through the main loop's status arm.                             *)
(***************************************************************************)
\* the main loop's job_status_rx arm: the frames written for the events
status_event_frames(events, v) ==
    IF events # <<>> /\ events[1].status.tag = "Complete"
    THEN <<UpdateJobStatus(events[1].job_id, events[1].status)>>
             \o check_capacity_and_request_job(v)
    ELSE <<>>

AgentHas(a, type) ==
    /\ conn[a] # NULL
    /\ to_agent[conn[a]] # <<>>
    /\ Head(to_agent[conn[a]]).type = type

\* handle_server_message, ServerMessage::NewJobAvailable
OnNewJobAvailable(a, forge_ok) ==
    /\ AgentHas(a, "NewJobAvailable")
    /\ LET msg == Head(to_agent[conn[a]])
       IN  AgentSend(a, IF can_allocate(vms[a], msg.vm.cpu_count, msg.vm.memory_size_mb)
                        THEN <<ClaimJob(msg.id, msg.vm)>> ELSE <<>>, 1, forge_ok)
    /\ http' = NoResponse
    /\ UNCHANGED <<jobs_github, runners_table, runners, now, limits, ext_vars, conn,
                   local_jobs, vms>>

\* handle_server_message, ServerMessage::JobClaimed: register_job, launch_vm
\* and set_job_running, and the supervisor's create_vm.  created is whether
\* the VM booted; when it did not, completion_first is whether the completion
\* handler ran complete_job before the main loop ran set_job_running.
OnJobClaimed(a, created, completion_first, forge_ok) ==
    /\ AgentHas(a, "JobClaimed")
    /\ LET msg == Head(to_agent[conn[a]])
           registered == [local_jobs[a] EXCEPT ![msg.id] = Queued]
           booted == created /\ can_allocate(vms[a], msg.vm.cpu_count,
                                             msg.vm.memory_size_mb)
           running == jm_update_job_status(registered, msg.id, Running).jobs
           failed == IF completion_first
                     THEN LET c == complete_job(registered, msg.id, "Failed")
                          IN  [jobs |-> jm_update_job_status(c.jobs, msg.id, Running).jobs,
                               events |-> c.events]
                     ELSE complete_job(running, msg.id, "Failed")
       IN  IF booted
           THEN /\ local_jobs' = [local_jobs EXCEPT ![a] = running]
                /\ vms' = [vms EXCEPT ![a][msg.id] = [state |-> "running", cfg |-> msg.vm]]
                /\ AgentSend(a, <<>>, 1, forge_ok)
           ELSE /\ local_jobs' = [local_jobs EXCEPT ![a] = failed.jobs]
                /\ vms' = vms
                /\ AgentSend(a, status_event_frames(failed.events, vms[a]), 1, forge_ok)
    /\ http' = NoResponse
    /\ UNCHANGED <<jobs_github, runners_table, runners, now, limits, ext_vars, conn>>

\* handle_server_message, ServerMessage::JobTimedOut and ::JobCancelled:
\* complete_job, then the shutdown command to the VM
OnJobStopped(a, type, status, forge_ok) ==
    /\ AgentHas(a, type)
    /\ LET msg == Head(to_agent[conn[a]])
           res == complete_job(local_jobs[a], msg.id, status)
       IN  /\ local_jobs' = [local_jobs EXCEPT ![a] = res.jobs]
           /\ AgentSend(a, status_event_frames(res.events, vms[a]), 1, forge_ok)
    /\ http' = NoResponse
    /\ UNCHANGED <<jobs_github, runners_table, runners, now, limits, ext_vars, conn, vms>>

OnJobTimedOut(a, forge_ok) == OnJobStopped(a, "JobTimedOut", "TimedOut", forge_ok)

OnJobCancelled(a, forge_ok) == OnJobStopped(a, "JobCancelled", "Cancelled", forge_ok)

\* vm_task_impl: the VM exits (by itself or after the shutdown command), its
\* ResourceGuard is dropped and the completion handler runs complete_job
VmExit(a, j, exit_status, forge_ok) ==
    /\ vms[a][j].state = "running"
    /\ LET v == [vms[a] EXCEPT ![j] = NoVm]
           res == complete_job(local_jobs[a], j,
                      IF exit_status = "Success" THEN "Success" ELSE "Failed")
       IN  /\ vms' = [vms EXCEPT ![a] = v]
           /\ local_jobs' = [local_jobs EXCEPT ![a] = res.jobs]
           /\ AgentSend(a, status_event_frames(res.events, v), 0, forge_ok)
    /\ http' = NoResponse
    /\ UNCHANGED <<jobs_github, runners_table, runners, now, limits, ext_vars, conn>>

Next ==
    \/ \E vm \in VMs, runner_ids \in SUBSET DOMAIN runners_table, forge_ok, db_ok \in BOOLEAN :
           CreateJob(vm, runner_ids, forge_ok, db_ok)
    \/ \E a \in Agents : RunnerConnect(a)
    \/ \E r \in RunnerIds : ForwardChannel(r)
    \/ \E r \in RunnerIds : Disconnect(r)
    \/ \E id \in JobIds, forge_ok \in BOOLEAN : CancelJob(id, forge_ok)
    \/ \E id \in JobIds, runner_ids \in SUBSET DOMAIN runners_table,
          forge_ok, db_ok \in BOOLEAN : RetryJob(id, runner_ids, forge_ok, db_ok)
    \/ \E forge_ok \in BOOLEAN : JobTimeoutChecker(forge_ok)
    \/ Tick
    \/ \E a \in Agents, forge_ok \in BOOLEAN : OnNewJobAvailable(a, forge_ok)
    \/ \E a \in Agents, created, completion_first, forge_ok \in BOOLEAN :
           OnJobClaimed(a, created, completion_first, forge_ok)
    \/ \E a \in Agents, forge_ok \in BOOLEAN : OnJobTimedOut(a, forge_ok)
    \/ \E a \in Agents, forge_ok \in BOOLEAN : OnJobCancelled(a, forge_ok)
    \/ \E a \in Agents, j \in JobIds, exit_status \in {"Success", "Failure"},
          forge_ok \in BOOLEAN : VmExit(a, j, exit_status, forge_ok)

Spec == Init /\ [][Next]_vars

\* The steps the system takes by itself.  The agent's main loop polls its
\* socket, spawn_runner polls its channel, the timeout checker ticks every 30
\* seconds, a VM's job ends, the agent redials until it is connected, and time
\* passes.  Pushes, API requests and connection losses come from outside.
FairSpec ==
    /\ Spec
    /\ WF_vars(\E r \in RunnerIds : ForwardChannel(r))
    /\ WF_vars(\E a \in Agents, forge_ok \in BOOLEAN : OnNewJobAvailable(a, forge_ok))
    /\ WF_vars(\E a \in Agents, created, completion_first, forge_ok \in BOOLEAN :
                   OnJobClaimed(a, created, completion_first, forge_ok))
    /\ WF_vars(\E a \in Agents, forge_ok \in BOOLEAN : OnJobTimedOut(a, forge_ok))
    /\ WF_vars(\E a \in Agents, forge_ok \in BOOLEAN : OnJobCancelled(a, forge_ok))
    /\ WF_vars(\E a \in Agents, j \in JobIds, exit_status \in {"Success", "Failure"},
                  forge_ok \in BOOLEAN : VmExit(a, j, exit_status, forge_ok))
    /\ WF_vars(\E forge_ok \in BOOLEAN : JobTimeoutChecker(forge_ok))
    /\ WF_vars(\E a \in Agents : RunnerConnect(a))
    /\ WF_vars(Tick)

(***************************************************************************)
(* Control plane: the push webhook (github/serve.rs, github/model.rs).     *)
(* Each statement of the handler that can return an error is a step at     *)
(* which the request ends; no statement runs in a database transaction.    *)
(***************************************************************************)
\* The statements of JobGitHub::create_job that can fail, for one descriptor
CreateJobSteps == {"job_new", "check_run", "link", "get_by_id"}

\* Where a push request fails: nowhere, before the loop, or at a statement of
\* create_job for the at-th descriptor
FailPoints ==
    [step : {"none", "content", "commit", "parse"}, at : {0}]
        \cup [step : CreateJobSteps, at : 1..MaxVms]

\* JobGitHub::create_job.  st is the tables and the hub, and whether the
\* handler is still running (ok).
create_job(st, commit_id, vm_config, fail, db_ok) ==
    IF fail = "job_new" THEN [st EXCEPT !.ok = FALSE]
    ELSE LET job == Job_new(Len(st.tbl) + 1, vm_config.platform, vm_config.cpu_count,
                            vm_config.memory_size_mb)
             inserted == [st EXCEPT !.tbl = Append(@, job)]
             linked == [inserted EXCEPT !.links = @ \cup {job.id},
                                        !.commit_of = (job.id :> commit_id) @@ @]
         IN  IF fail \in {"check_run", "link"} THEN [inserted EXCEPT !.ok = FALSE]
             ELSE IF fail = "get_by_id" THEN [linked EXCEPT !.ok = FALSE]
             ELSE [linked EXCEPT
                      !.map = broadcast_job_available(@, DOMAIN @, runners_table, job,
                                                        db_ok)]

\* for vm in vms { github_commit.create_job(app_state, vm).await? }
RECURSIVE create_jobs(_, _, _, _, _, _)
create_jobs(st, commit_id, vm_list, i, fail, db_ok) ==
    IF i > Len(vm_list) \/ ~st.ok THEN st
    ELSE create_jobs(create_job(st, commit_id, vm_list[i],
                                IF fail.at = i THEN fail.step ELSE "none", db_ok),
                     commit_id, vm_list, i + 1, fail, db_ok)

\* webhook, WebhookEventPayload::Push.  has_devenv_nix is the answer of the
\* forge about devenv.nix; vm_list is what FinalCloud::new(..).into_vms()
\* derives from devenv.yaml when it parses.
WebhookPush(has_devenv_nix, vm_list, fail, db_ok) ==
    /\ Cardinality(github_commit) < MaxCommits
    /\ fail.at <= Len(vm_list)
    /\ LET commit_id == Cardinality(github_commit) + 1
           st0 == [tbl |-> jobs, links |-> jobs_github, commit_of |-> jobs_github_commit,
                   map |-> runners, ok |-> TRUE]
           parsed == IF fail.step = "parse" THEN <<>> ELSE vm_list
           st == create_jobs(st0, commit_id, parsed, 1, fail, db_ok)
       IN  IF fail.step = "content" \/ ~has_devenv_nix
           THEN /\ webhook' = [NoWebhook EXCEPT !.ok = has_devenv_nix => fail.step # "content",
                                                !.first = Len(jobs)]
                /\ UNCHANGED <<jobs, jobs_github, jobs_github_commit, runners, github_commit>>
           ELSE IF fail.step = "commit"
           THEN /\ webhook' = [commit |-> commit_id, vms |-> <<>>, first |-> Len(jobs),
                               ok |-> FALSE]
                /\ UNCHANGED <<jobs, jobs_github, jobs_github_commit, runners, github_commit>>
           ELSE /\ github_commit' = github_commit \cup {commit_id}
                /\ jobs' = st.tbl
                /\ jobs_github' = st.links
                /\ jobs_github_commit' = st.commit_of
                /\ runners' = st.map
                /\ webhook' = [commit |-> commit_id, vms |-> parsed, first |-> Len(jobs),
                               ok |-> st.ok /\ fail.step # "parse"]
    /\ http' = NoResponse
    /\ claim' = NoClaim
    /\ request' = NoRequest
    /\ UNCHANGED <<runners_table, to_agent, now, limits, claimed, conn, local_jobs, vms,
                   rm_vars, agent_vars, wrote, side_vars>>

\* The push events a repository sends: zero to MaxVms descriptors each
VmLists == UNION {[1..n -> VMs] : n \in 0..MaxVms}

WebhookNext ==
    \E has_devenv_nix, db_ok \in BOOLEAN, vm_list \in VmLists, fail \in FailPoints :
        WebhookPush(has_devenv_nix, vm_list, fail, db_ok)

WebhookSpec == Init /\ [][WebhookNext]_vars

(***************************************************************************)
(* Control plane: the dispatcher seen from its websocket.  Repositories    *)
(* push commits with several descriptors, and runners connect, ask for     *)
(* jobs, claim the jobs they are offered and report their completion.      *)
(***************************************************************************)
\* spawn_runner, ClientMessage::RequestJob, while the transactions of other
\* connections hold locks on the rows in locked
RunnerRequests(r, locked) ==
    /\ Connected(r)
    /\ locked \subseteq DOMAIN jobs
    /\ LET reply == check_and_send_job(jobs, runners_table, r, locked)
       IN  /\ Len(to_agent[r]) + Len(reply) <= MaxWire
           /\ to_agent' = [to_agent EXCEPT ![r] = @ \o reply]
           /\ request' = [runner_id |-> r, locked |-> locked, reply |-> reply]
    /\ http' = NoResponse
    /\ claim' = NoClaim
    /\ webhook' = NoWebhook
    /\ UNCHANGED <<jobs, jobs_github, runners_table, runners, now, limits, github_commit,
                   jobs_github_commit, claimed, conn, local_jobs, vms, rm_vars,
                   agent_vars, wrote, side_vars>>

\* The runner reads the NewJobAvailable at the head of its socket and answers
\* ClaimJob: spawn_runner, ClientMessage::ClaimJob
RunnerClaims(r, forge_ok) ==
    /\ Connected(r)
    /\ to_agent[r] # <<>>
    /\ Head(to_agent[r]).type = "NewJobAvailable"
    /\ LET msg == Head(to_agent[r])
           st == spawn_runner([tbl |-> jobs, out |-> <<>>, log |-> <<>>], r,
                              <<ClaimJob(msg.id, msg.vm)>>, forge_ok)
       IN  /\ jobs' = st.tbl
           /\ to_agent' = [to_agent EXCEPT ![r] = Tail(@) \o st.out]
    /\ http' = NoResponse
    /\ claim' = NoClaim
    /\ request' = NoRequest
    /\ webhook' = NoWebhook
    /\ UNCHANGED <<jobs_github, runners_table, runners, now, limits, github_commit,
                   jobs_github_commit, claimed, conn, local_jobs, vms, rm_vars,
                   agent_vars, wrote, side_vars>>

\* The runner reads the frame at the head of its socket and answers nothing
RunnerReads(r) ==
    /\ Connected(r)
    /\ to_agent[r] # <<>>
    /\ to_agent' = [to_agent EXCEPT ![r] = Tail(@)]
    /\ http' = NoResponse
    /\ claim' = NoClaim
    /\ request' = NoRequest
    /\ webhook' = NoWebhook
    /\ UNCHANGED <<jobs, jobs_github, runners_table, runners, now, limits, github_commit,
                   jobs_github_commit, claimed, conn, local_jobs, vms, rm_vars,
                   agent_vars, wrote, side_vars>>

\* The runner reports the end of a job it runs: spawn_runner,
\* ClientMessage::UpdateJobStatus
RunnerUpdates(r, id, completion_status, forge_ok) ==
    /\ Connected(r)
    /\ id \in DOMAIN jobs
    /\ jobs[id].runner_id = r
    /\ from_sql(jobs[id].status) = Running
    /\ LET st == spawn_runner([tbl |-> jobs, out |-> <<>>, log |-> <<>>], r,
                              <<UpdateJobStatus(id, Complete(completion_status))>>,
                              forge_ok)
       IN  /\ Len(to_agent[r]) + Len(st.out) <= MaxWire
           /\ jobs' = st.tbl
           /\ to_agent' = [to_agent EXCEPT ![r] = @ \o st.out]
    /\ http' = NoResponse
    /\ claim' = NoClaim
    /\ request' = NoRequest
    /\ webhook' = NoWebhook
    /\ UNCHANGED <<jobs_github, runners_table, runners, now, limits, github_commit,
                   jobs_github_commit, claimed, conn, local_jobs, vms, rm_vars,
                   agent_vars, wrote, side_vars>>

\* A push that is handled without a failure
NoFailure == [step |-> "none", at |-> 0]

DispatchNext ==
    \/ \E vm_list \in VmLists :
           /\ Len(jobs) + Len(vm_list) <= MaxDispatched
           /\ WebhookPush(TRUE, vm_list, NoFailure, TRUE)
    \/ RunnerConnect(1)
    \/ \E r \in RunnerIds, locked \in {{}} \cup {{j} : j \in 1..MaxDispatched} :
           RunnerRequests(r, locked)
    \/ \E r \in RunnerIds : RunnerClaims(r, TRUE)
    \/ \E r \in RunnerIds : RunnerReads(r)
    \/ \E r \in RunnerIds, id \in 1..MaxDispatched : RunnerUpdates(r, id, "Success", TRUE)

DispatchSpec == Init /\ [][DispatchNext]_vars

(***************************************************************************)
(* Runner agent: the resource manager by itself                            *)
(* (runner/src/resource_manager.rs).  Tasks allocate, and drop or take the *)
(* guards they hold, in any order.  A job id is a fresh Uuid: the number   *)
(* of the allocation.                                                      *)
(***************************************************************************)
core_vars == <<jobs, jobs_github, runners_table, runners, to_agent, now, limits, http,
               claimed, claim, conn, local_jobs, vms>>

\* The limits of a host: at least one cpu and at least the memory the manager
\* keeps free, with or without a limit on the instances
RmLimits ==
    [max_cpus : {1, 3}, max_memory_mb : {100, 300}, max_instances : {NoCap, Cap(2)}]

\* The VM descriptors asked for
Requests == [cpu_count : 0..MaxCpuReq, memory_size_mb : {0, 100}]

\* the body of allocate_resources under its write lock
allocate_resources(state, job_id, vm, lim) ==
    IF ~check_limits(state, vm.cpu_count, vm.memory_size_mb, lim)
    THEN [ok |-> FALSE, state |-> state]
    ELSE [ok |-> TRUE,
          state |-> [allocated_cpus |-> state.allocated_cpus + vm.cpu_count,
                     allocated_memory |-> state.allocated_memory + vm.memory_size_mb,
                     jobs |-> (job_id :> vm) @@ state.jobs]]

\* release_job that removes the entry and leaves the counters as they are
release_job_keep_counters(state, job_id) ==
    IF job_id \notin DOMAIN state.jobs THEN [found |-> FALSE, state |-> state]
    ELSE [found |-> TRUE,
          state |-> [state EXCEPT !.jobs = [j \in DOMAIN state.jobs \ {job_id} |->
                                                state.jobs[j]]]]

\* ResourceManager::release_job
release_job(state, job_id) ==
    IF job_id \notin DOMAIN state.jobs THEN [found |-> FALSE, state |-> state]
    ELSE LET vm == state.jobs[job_id]
         IN  [found |-> TRUE,
              state |-> [allocated_cpus |->
                             saturating_sub(state.allocated_cpus, vm.cpu_count),
                         allocated_memory |->
                             saturating_sub(state.allocated_memory, vm.memory_size_mb),
                         jobs |-> [j \in DOMAIN state.jobs \ {job_id} |-> state.jobs[j]]]]

\* What a check_limits call saw and answered
Checked(op, cpus, memory_mb, ok) ==
    [op |-> op, cpus |-> cpus, memory_mb |-> memory_mb, ok |-> ok,
     used_cpus |-> allocation.allocated_cpus, used_memory |-> allocation.allocated_memory,
     instances |-> Cardinality(DOMAIN allocation.jobs)]

\* ResourceManager::allocate_resources
RmAllocate(vm) ==
    LET job_id == 1 + Cardinality({g \in AllocIds : guards[g].state # "none"})
        res == allocate_resources(allocation, job_id, vm, rm_limits)
    IN  /\ job_id \in AllocIds
        /\ allocation' = res.state
        /\ guards' = IF res.ok THEN [guards EXCEPT ![job_id] = [state |-> "held", vm |-> vm]]
                               ELSE guards
        /\ check' = Checked("allocate_resources", vm.cpu_count, vm.memory_size_mb, res.ok)
        /\ UNCHANGED <<rm_limits, releases, core_vars, webhook_vars, request,
                   agent_vars, wrote, side_vars>>

\* ResourceManager::can_allocate
RmCanAllocate(cpu_count, memory_mb) ==
    /\ check' = Checked("can_allocate", cpu_count, memory_mb,
                        check_limits(allocation, cpu_count, memory_mb, rm_limits))
    /\ UNCHANGED <<rm_limits, allocation, guards, releases, core_vars, webhook_vars,
                   request, agent_vars, wrote, side_vars>>

\* Drop for ResourceGuard with job_id Some: the release task is spawned
RmDropGuard(g) ==
    /\ guards[g].state = "held"
    /\ guards' = [guards EXCEPT ![g].state = "dropped"]
    /\ check' = NoCheck
    /\ UNCHANGED <<rm_limits, allocation, releases, core_vars, webhook_vars, request,
                   agent_vars, wrote, side_vars>>

\* the task spawned by Drop: resource_manager.release_job(job_id)
RmReleaseTask(g) ==
    /\ guards[g].state = "dropped"
    /\ LET res == release_job(allocation, g)
       IN  /\ allocation' = res.state
           /\ releases' = IF res.found THEN [releases EXCEPT ![g].guard = @ + 1]
                                       ELSE releases
    /\ guards' = [guards EXCEPT ![g].state = "released"]
    /\ check' = NoCheck
    /\ UNCHANGED <<rm_limits, core_vars, webhook_vars, request,
                   agent_vars, side_vars>>
    /\ wrote' = NoWrite

\* ResourceGuard::take: job_id and vm are taken out, and the Drop that runs
\* when take returns finds job_id None
RmTakeGuard(g) ==
    /\ guards[g].state = "held"
    /\ guards' = [guards EXCEPT ![g].state = "taken"]
    /\ check' = NoCheck
    /\ UNCHANGED <<rm_limits, allocation, releases, core_vars, webhook_vars, request,
                   agent_vars, wrote, side_vars>>

\* release_job called with the id that take returned
RmReleaseJob(g) ==
    /\ guards[g].state = "taken"
    /\ LET res == release_job(allocation, g)
       IN  /\ allocation' = res.state
           /\ releases' = IF res.found THEN [releases EXCEPT ![g].manual = @ + 1]
                                       ELSE releases
    /\ check' = NoCheck
    /\ UNCHANGED <<rm_limits, guards, core_vars, webhook_vars, request,
                   agent_vars, wrote, side_vars>>

ResourceNext ==
    \/ \E vm \in Requests : RmAllocate(vm)
    \/ \E vm \in Requests : RmCanAllocate(vm.cpu_count, vm.memory_size_mb)
    \/ \E g \in AllocIds : RmDropGuard(g)
    \/ \E g \in AllocIds : RmReleaseTask(g)
    \/ \E g \in AllocIds : RmTakeGuard(g)
    \/ \E g \in AllocIds : RmReleaseJob(g)

ResourceInit ==
    /\ CoreInit
    /\ limits.agents = 1
    /\ rm_limits \in RmLimits
    /\ ResourceManager_new
    /\ AgentInit
    /\ LogInit
    /\ VsockInit
    /\ ip_guards = [g \in 1..MaxIpGuards |-> NoIpGuard]
    /\ CloudConfigInit
    /\ JobManagerInit
    /\ guard_job_id = [g \in AllocIds |-> NULL]

ResourceSpec == ResourceInit /\ [][ResourceNext]_vars

(***************************************************************************)
(* Runner agent: the VM manager and its supervisors                        *)
(* (runner/src/vm_manager.rs, runner/src/vm_impl/linux.rs).  launch_vm     *)
(* spawns one supervisor (vm_task_impl) per job.  A supervisor creates the *)
(* VM, which allocates cpus, memory and an IP under a fresh Uuid, waits    *)
(* for the VM to exit or for a Shutdown command, sends the completion      *)
(* event, drops the VM with its guards and removes the control channel.    *)
(***************************************************************************)
\* The process runs: main has not returned
Alive == ~main_loop.exited

\* VmManager::launch_vm
launch_vm(j, vm_config) ==
    /\ control_channels' = control_channels \cup {j}
    /\ sup' = [sup EXCEPT ![j] = [NoSup EXCEPT !.pc = "creating", !.cfg = vm_config]]

\* VmManager::shutdown_vm: Ok(true) when the command was sent
shutdown_vm(j) ==
    sup' = IF j \in control_channels THEN [sup EXCEPT ![j].cmds = @ + 1] ELSE sup

\* completion_tx.send twice over
SendCompletionTwice(j, status) ==
    /\ completion_rx' = completion_rx \o <<[job_id |-> j, status |-> status],
                                           [job_id |-> j, status |-> status]>>
    /\ emitted' = [emitted EXCEPT ![j] = @ + 2]

\* completion_tx.send(VmCompletionEvent { job_id, status })
SendCompletion(j, status) ==
    /\ completion_rx' = Append(completion_rx, [job_id |-> j, status |-> status])
    /\ emitted' = [emitted EXCEPT ![j] = @ + 1]

\* the Uuid that LinuxVm::new draws for its allocation
Uuid_now_v7 == 1 + Cardinality({g \in AllocIds : guards[g].state # "none"})

\* A task calls launch_vm for a job
LaunchVm(j, vm_config) ==
    /\ Alive
    /\ sup[j].pc = "none"
    /\ launch_vm(j, vm_config)
    /\ UNCHANGED <<completion_rx, emitted, ip_vars, loop_vars, rm_vars, core_vars,
                   webhook_vars, request, side_vars>>
    /\ wrote' = NoWrite

\* A task calls shutdown_vm for a job whose control channel is registered
ShutdownVm(j) ==
    /\ Alive
    /\ j \in control_channels
    /\ sup[j].cmds < MaxCmds
    /\ shutdown_vm(j)
    /\ UNCHANGED <<control_channels, completion_rx, emitted, ip_vars, loop_vars, rm_vars,
                   core_vars, webhook_vars, request, side_vars>>
    /\ wrote' = NoWrite

\* vm_task_impl: create_vm, set_job_config and start.  LinuxVm::new allocates
\* the resources and then the IP; booted is whether every later step of the
\* creation and the boot succeeds.  When one fails the guards are dropped with
\* the partly built VM and the Failure event is sent.
SupCreate(j, booted) ==
    /\ Alive
    /\ sup[j].pc = "creating"
    /\ Uuid_now_v7 \in AllocIds
    /\ LET g == Uuid_now_v7
           res == allocate_resources(allocation, g, sup[j].cfg, rm_limits)
           ip == IF free_ips = <<>> THEN 0 ELSE Head(free_ips)
           ok == res.ok /\ ip # 0 /\ booted
       IN  /\ allocation' = res.state
           /\ guards' = IF res.ok
                        THEN [guards EXCEPT ![g] = [state |-> IF ok THEN "held" ELSE "dropped",
                                                    vm |-> sup[j].cfg]]
                        ELSE guards
           /\ free_ips' = IF res.ok /\ ip # 0 THEN Tail(free_ips) ELSE free_ips
           /\ ip_tasks' = IF res.ok /\ ip # 0 /\ ~ok THEN ip_tasks \cup {ip} ELSE ip_tasks
           /\ IF ok
              THEN /\ sup' = [sup EXCEPT ![j].pc = "waiting", ![j].proc = "running",
                                         ![j].alloc = g, ![j].ip = ip]
                   /\ UNCHANGED <<completion_rx, emitted>>
              ELSE /\ sup' = [sup EXCEPT ![j].pc = "cleanup"]
                   /\ SendCompletion(j, "Failure")
    /\ UNCHANGED <<control_channels, loop_vars, rm_limits, releases, check, core_vars,
                   webhook_vars, request, side_vars>>
    /\ wrote' = NoWrite

\* The cloud-hypervisor process exits by itself: the job ran to its end
VmExits(j, status) ==
    /\ Alive
    /\ sup[j].pc = "waiting"
    /\ sup[j].proc = "running"
    /\ sup' = [sup EXCEPT ![j].proc = "exited", ![j].status = status]
    /\ UNCHANGED <<control_channels, completion_rx, emitted, ip_vars, loop_vars, rm_vars,
                   core_vars, webhook_vars, request, side_vars>>
    /\ wrote' = NoWrite

\* the end of the Ok arm of vm_task_impl: the completion event is sent and the
\* VM is dropped with its ResourceGuard and its IpGuard
SendAndDrop(j, status) ==
    /\ sup' = [sup EXCEPT ![j].pc = "cleanup"]
    /\ SendCompletion(j, status)
    /\ guards' = [guards EXCEPT ![sup[j].alloc].state = "dropped"]
    /\ ip_tasks' = ip_tasks \cup {sup[j].ip}

\* vm_task_impl, the vm.wait() arm of the select: the VM exited by itself
SupWait(j, wait_ok) ==
    /\ Alive
    /\ sup[j].pc = "waiting"
    /\ sup[j].proc = "exited"
    /\ SendAndDrop(j, IF wait_ok THEN sup[j].status ELSE "Failure")
    /\ UNCHANGED <<control_channels, free_ips, loop_vars, rm_limits, allocation, releases,
                   check, core_vars, webhook_vars, request, side_vars>>
    /\ wrote' = NoWrite

\* vm_task_impl, the control_rx.recv() arm of the select: VmCommand::Shutdown.
\* vm.shutdown() kills the process; status is what vm.wait() will derive from
\* the job result, or from the exit code of the killed process.
SupShutdown(j, status) ==
    /\ Alive
    /\ sup[j].pc = "waiting"
    /\ sup[j].cmds > 0
    /\ sup' = [sup EXCEPT ![j].pc = "stopping", ![j].cmds = @ - 1, ![j].proc = "exited",
                          ![j].told = TRUE,
                          ![j].status = IF sup[j].proc = "exited" THEN @ ELSE status]
    /\ UNCHANGED <<control_channels, completion_rx, emitted, ip_vars, loop_vars, rm_vars,
                   core_vars, webhook_vars, request, side_vars>>
    /\ wrote' = NoWrite

\* vm_task_impl, the vm.wait() after the shutdown
SupStopped(j, wait_ok) ==
    /\ Alive
    /\ sup[j].pc = "stopping"
    /\ SendAndDrop(j, IF wait_ok THEN sup[j].status ELSE "Failure")
    /\ UNCHANGED <<control_channels, free_ips, loop_vars, rm_limits, allocation, releases,
                   check, core_vars, webhook_vars, request, side_vars>>
    /\ wrote' = NoWrite

\* vm_task_impl: control_channels.remove(&job_id), and the task ends
SupCleanup(j) ==
    /\ Alive
    /\ sup[j].pc = "cleanup"
    /\ control_channels' = control_channels \ {j}
    /\ sup' = [sup EXCEPT ![j].pc = "done"]
    /\ UNCHANGED <<completion_rx, emitted, ip_vars, loop_vars, rm_vars, core_vars,
                   webhook_vars, request, side_vars>>
    /\ wrote' = NoWrite

\* the task spawned by Drop for ResourceGuard, in a process that runs
GuardReleaseTask(g) ==
    /\ Alive
    /\ RmReleaseTask(g)

\* the task spawned by Drop for IpGuard: release_ip
IpReleaseTask(ip) ==
    /\ Alive
    /\ ip \in ip_tasks
    /\ ip_tasks' = ip_tasks \ {ip}
    /\ free_ips' = Append(free_ips, ip)
    /\ UNCHANGED <<vmm_vars, loop_vars, rm_vars, core_vars, webhook_vars, request, side_vars>>
    /\ wrote' = NoWrite

\* The steps of the supervisors, and of the tasks their drops spawn
SupervisorStep ==
    \/ \E j \in JobIds, booted \in BOOLEAN : SupCreate(j, booted)
    \/ \E j \in JobIds, wait_ok \in BOOLEAN : SupWait(j, wait_ok)
    \/ \E j \in JobIds, status \in VmExitStatus : SupShutdown(j, status)
    \/ \E j \in JobIds, wait_ok \in BOOLEAN : SupStopped(j, wait_ok)
    \/ \E j \in JobIds : SupCleanup(j)
    \/ \E g \in AllocIds : GuardReleaseTask(g)
    \/ \E ip \in 1..MaxIps : IpReleaseTask(ip)

VmNext ==
    \/ \E j \in JobIds, vm_config \in VMs : LaunchVm(j, vm_config)
    \/ \E j \in JobIds : ShutdownVm(j)
    \/ \E j \in JobIds, status \in VmExitStatus : VmExits(j, status)
    \/ SupervisorStep

\* A spawned task that can take a step takes it
VmSpec == Init /\ [][VmNext]_vars /\ WF_vars(SupervisorStep)

(***************************************************************************)
(* Runner agent: the main loop with its VM supervisors                     *)
(* (runner/src/bin/runner.rs), as built for Linux.  The agent is           *)
(* connected; the frames of the control plane arrive in any order that its *)
(* protocol allows.  The Queued and Running events of the job manager,     *)
(* which the main loop only logs, are left out of job_status_rx.           *)
(***************************************************************************)
\* The one agent of this part of the model
Agent == 1

\* The Uuid of a job, as a key of ResourceState.jobs: no Uuid drawn by
\* LinuxVm::new equals it
JobUuid(j) == MaxAllocs + j

\* JobManager::active_job_count
active_job_count(local) ==
    Cardinality({j \in JobIds : local[j] # NoJob /\ local[j].tag # "Complete"})

\* the events of the job manager that the main loop acts on
CompleteEvents(events) == SelectSeq(events, LAMBDA e : e.status.tag = "Complete")

\* a handler that releases the allocation of the job's VM at once
handler_release_eager(alloc, j, type, send_failed) ==
    release_job(alloc, sup[j].alloc).state

\* handle_server_message, JobCancelled: resource_manager.release_job(id) when
\* shutdown_vm failed.  JobTimedOut releases nothing.
handler_release(alloc, j, type, send_failed) ==
    IF type = "JobCancelled" /\ send_failed
    THEN release_job(alloc, JobUuid(j)).state
    ELSE alloc

\* client.send_message: what the history keeps of the frames written
Written(frames) ==
    IF main_loop.shutting_down THEN outbox \cup {frames[i].type : i \in DOMAIN frames}
    ELSE outbox

\* a handler that claims every job it is offered
claim_if_room_always(j, vm) == <<ClaimJob(j, vm)>>

\* handle_server_message, ServerMessage::NewJobAvailable, past the return on
\* shutting_down: the frames it writes
claim_if_room(j, vm) ==
    IF check_limits(allocation, vm.cpu_count, vm.memory_size_mb, rm_limits)
    THEN <<ClaimJob(j, vm)>> ELSE <<>>

\* a check that asks for a job whatever the capacity
request_job_always == <<RequestJob>>

\* check_capacity_and_request_job: the frames it writes
request_job_if_room ==
    IF check_limits(allocation, 1, 0, rm_limits) THEN <<RequestJob>> ELSE <<>>

\* the main loop, job_status_rx arm: the frames it writes for an event
status_frames(event) ==
    <<UpdateJobStatus(event.job_id, event.status)>> \o
    (IF ~main_loop.shutting_down THEN request_job_if_room ELSE <<>>)

\* handle_server_message, ServerMessage::NewJobAvailable
AgNewJobAvailable(j, vm) ==
    /\ Alive
    /\ main_loop.connected
    /\ ~main_loop.shutting_down
    /\ local_jobs[Agent][j] = NoJob
    /\ LET frames == claim_if_room(j, vm)
       IN  /\ outbox' = Written(frames)
           /\ main_loop' = IF frames = <<>> THEN main_loop
                           ELSE [main_loop EXCEPT !.claiming = @ \cup {j}]
    /\ UNCHANGED <<vmm_vars, ip_vars, job_status_rx, rm_vars, core_vars, webhook_vars,
                   request, side_vars>>
    /\ wrote' = NoWrite

\* handle_server_message, ServerMessage::JobClaimed, the answer to a ClaimJob:
\* register_job, launch_vm (which returns Ok) and set_job_running
AgJobClaimed(j, vm) ==
    /\ Alive
    /\ ~main_loop.shutting_down
    /\ j \in main_loop.claiming
    /\ local_jobs[Agent][j] = NoJob
    /\ sup[j].pc = "none"
    /\ LET registered == [local_jobs[Agent] EXCEPT ![j] = Queued]
       IN  local_jobs' = [local_jobs EXCEPT
                             ![Agent] = jm_update_job_status(registered, j, Running).jobs]
    /\ launch_vm(j, vm)
    /\ main_loop' = [main_loop EXCEPT !.claiming = @ \ {j}]
    /\ UNCHANGED <<completion_rx, emitted, ip_vars, job_status_rx, outbox, rm_vars,
                   jobs, jobs_github, runners_table, runners, to_agent, now, limits, http,
                   claimed, claim, conn, vms, webhook_vars, request, side_vars>>
    /\ wrote' = NoWrite

\* handle_server_message, ServerMessage::JobTimedOut and ::JobCancelled:
\* complete_job, then shutdown_vm.  The control plane stops a job once, while
\* the job is Running in its table; the frame is handled while the job is
\* Running in the job manager.  send_failed is
\* the case in which the supervisor removes its channel and ends between the
\* lookup of shutdown_vm and its send.
AgJobStopped(j, type, send_failed) ==
    /\ Alive
    /\ ~main_loop.shutting_down
    /\ local_jobs[Agent][j] = Running
    /\ send_failed => j \in control_channels /\ sup[j].pc = "cleanup"
    /\ ~send_failed /\ j \in control_channels => sup[j].cmds < MaxCmds
    /\ LET res == complete_job(local_jobs[Agent], j,
                               IF type = "JobTimedOut" THEN "TimedOut" ELSE "Cancelled")
       IN  /\ local_jobs' = [local_jobs EXCEPT ![Agent] = res.jobs]
           /\ job_status_rx' = job_status_rx \o CompleteEvents(res.events)
    /\ IF send_failed
       THEN /\ sup' = [sup EXCEPT ![j].pc = "done"]
            /\ control_channels' = control_channels \ {j}
       ELSE /\ shutdown_vm(j)
            /\ UNCHANGED control_channels
    /\ allocation' = handler_release(allocation, j, type, send_failed)
    /\ UNCHANGED <<completion_rx, emitted, ip_vars, main_loop, outbox, rm_limits, guards, releases,
                   check, jobs, jobs_github, runners_table, runners, to_agent, now, limits,
                   http, claimed, claim, conn, vms, webhook_vars, request, side_vars>>
    /\ wrote' = NoWrite

\* the task that handles VM completions: completion_rx.recv(), complete_job
CompletionHandler ==
    /\ Alive
    /\ completion_rx # <<>>
    /\ LET event == Head(completion_rx)
           res == complete_job(local_jobs[Agent], event.job_id,
                               IF event.status = "Success" THEN "Success" ELSE "Failed")
       IN  /\ local_jobs' = [local_jobs EXCEPT ![Agent] = res.jobs]
           /\ job_status_rx' = job_status_rx \o CompleteEvents(res.events)
    /\ completion_rx' = Tail(completion_rx)
    /\ UNCHANGED <<sup, control_channels, emitted, ip_vars, main_loop, outbox, rm_vars,
                   jobs, jobs_github, runners_table, runners, to_agent, now, limits, http,
                   claimed, claim, conn, vms, webhook_vars, request, side_vars>>
    /\ wrote' = NoWrite

\* the main loop, job_status_rx arm: UpdateJobStatus, and RequestJob when the
\* agent is not shutting down and has capacity
AgStatusEvent ==
    /\ Alive
    /\ job_status_rx # <<>>
    /\ outbox' = Written(status_frames(Head(job_status_rx)))
    /\ job_status_rx' = Tail(job_status_rx)
    /\ UNCHANGED <<vmm_vars, ip_vars, main_loop, rm_vars, core_vars, webhook_vars, request, side_vars>>
    /\ wrote' = NoWrite

\* the main loop, shutdown_rx arm: SIGINT or SIGTERM was received
AgSignal ==
    /\ Alive
    /\ ~main_loop.shutting_down
    /\ main_loop' = [main_loop EXCEPT !.shutting_down = TRUE]
    /\ UNCHANGED <<vmm_vars, ip_vars, job_status_rx, outbox, rm_vars, core_vars, webhook_vars,
                   request, side_vars>>
    /\ wrote' = NoWrite

\* the main loop, top of the loop: shutting down and no active job, so the
\* connection is closed, the loop ends and main returns
AgExit ==
    /\ Alive
    /\ main_loop.shutting_down
    /\ active_job_count(local_jobs[Agent]) = 0
    /\ main_loop' = [main_loop EXCEPT !.exited = TRUE]
    /\ UNCHANGED <<vmm_vars, ip_vars, job_status_rx, outbox, rm_vars, core_vars, webhook_vars,
                   request, side_vars>>
    /\ wrote' = NoWrite

\* The descriptors of the jobs the control plane offers to the agent: those of
\* its platform
OfferedVMs == {vm \in VMs : vm.platform = AgentPlatform(Agent)}

AgentNext ==
    \/ \E j \in JobIds, vm \in OfferedVMs : AgNewJobAvailable(j, vm)
    \/ \E j \in JobIds, vm \in OfferedVMs : AgJobClaimed(j, vm)
    \/ \E j \in JobIds, type \in {"JobTimedOut", "JobCancelled"}, send_failed \in BOOLEAN :
           AgJobStopped(j, type, send_failed)
    \/ CompletionHandler
    \/ AgStatusEvent
    \/ AgSignal
    \/ AgExit
    \/ \E j \in JobIds, status \in VmExitStatus : VmExits(j, status)
    \/ SupervisorStep

\* One agent is started
OneAgentInit ==
    /\ Init
    /\ limits.agents = Agent

AgentSpec == OneAgentInit /\ [][AgentNext]_vars

(***************************************************************************)
(* Runner agent: the main loop and its connection                          *)
(* (runner/src/bin/runner.rs, runner/src/client.rs).  The connection can   *)
(* be lost; the read arm of the loop then sees the end of the stream and   *)
(* calls reconnect_websocket, which retries until the control plane        *)
(* accepts.  A send fails when the connection is lost before the read arm  *)
(* has seen it, or breaks while the frame is written.  The frames written  *)
(* by a step are kept in wrote until the next step.  The control plane     *)
(* stops no job here, so that no supervisor is sent a Shutdown.            *)
(***************************************************************************)
\* an Err that reaches an unwrap() in the main loop: the task panics, main
\* returns the JoinError and the process ends
Panic ==
    /\ main_loop' = [main_loop EXCEPT !.exited = TRUE, !.connected = FALSE]
    /\ UNCHANGED <<vmm_vars, ip_vars, job_status_rx, outbox, rm_vars, core_vars,
                   webhook_vars, request, side_vars>>

\* the read arm, Some(Ok(NewJobAvailable)): handle_server_message(..).unwrap().
\* send_ok is whether client.send_message returns Ok for the ClaimJob.
CnNewJobAvailable(j, vm, send_ok) ==
    /\ Alive
    /\ main_loop.connected
    /\ ~main_loop.shutting_down
    /\ local_jobs[Agent][j] = NoJob
    /\ LET frames == claim_if_room(j, vm)
       IN  /\ wrote' = [op |-> "offer", id |-> j, vm |-> vm, frames |-> frames]
           /\ IF frames = <<>> \/ send_ok
              THEN /\ outbox' = Written(frames)
                   /\ main_loop' = IF frames = <<>> THEN main_loop
                                   ELSE [main_loop EXCEPT !.claiming = @ \cup {j}]
                   /\ UNCHANGED <<vmm_vars, ip_vars, job_status_rx, rm_vars, core_vars,
                                  webhook_vars, request, side_vars>>
              ELSE Panic

\* the job_status_rx arm: the errors of its two sends are logged
CnStatusEvent ==
    /\ Alive
    /\ job_status_rx # <<>>
    /\ wrote' = [NoWrite EXCEPT !.op = "status", !.id = Head(job_status_rx).job_id,
                                !.frames = status_frames(Head(job_status_rx))]
    /\ outbox' = Written(status_frames(Head(job_status_rx)))
    /\ job_status_rx' = Tail(job_status_rx)
    /\ UNCHANGED <<vmm_vars, ip_vars, main_loop, rm_vars, core_vars, webhook_vars, request, side_vars>>

\* The connection to the control plane is lost; the answers to the ClaimJob
\* frames in flight are lost with it
ConnectionLost ==
    /\ Alive
    /\ main_loop.connected
    /\ main_loop' = [main_loop EXCEPT !.connected = FALSE, !.claiming = {}]
    /\ wrote' = NoWrite
    /\ UNCHANGED <<vmm_vars, ip_vars, job_status_rx, outbox, rm_vars, core_vars,
                   webhook_vars, request, side_vars>>

\* the read arm, None: reconnect_websocket returns the new client once the
\* control plane accepts, then check_capacity_and_request_job(..).unwrap().
\* send_ok is whether client.send_message returns Ok for the RequestJob.
AgReconnect(send_ok) ==
    /\ Alive
    /\ ~main_loop.connected
    /\ ~main_loop.shutting_down
    /\ LET frames == request_job_if_room
       IN  /\ wrote' = [NoWrite EXCEPT !.op = "connect", !.frames = frames]
           /\ IF frames = <<>> \/ send_ok
              THEN /\ main_loop' = [main_loop EXCEPT !.connected = TRUE]
                   /\ UNCHANGED <<vmm_vars, ip_vars, job_status_rx, outbox, rm_vars,
                                  core_vars, webhook_vars, request, side_vars>>
              ELSE Panic

ConnNext ==
    \/ \E j \in JobIds, vm \in VMs, send_ok \in BOOLEAN : CnNewJobAvailable(j, vm, send_ok)
    \/ \E j \in JobIds, vm \in VMs : AgJobClaimed(j, vm)
    \/ CompletionHandler
    \/ CnStatusEvent
    \/ AgSignal
    \/ AgExit
    \/ ConnectionLost
    \/ \E send_ok \in BOOLEAN : AgReconnect(send_ok)
    \/ \E j \in JobIds, status \in VmExitStatus : VmExits(j, status)
    \/ \E j \in JobIds, booted \in BOOLEAN : SupCreate(j, booted)
    \/ \E j \in JobIds, wait_ok \in BOOLEAN : SupWait(j, wait_ok)
    \/ \E j \in JobIds : SupCleanup(j)
    \/ \E g \in AllocIds : GuardReleaseTask(g)
    \/ \E ip \in 1..MaxIps : IpReleaseTask(ip)

ConnSpec == OneAgentInit /\ [][ConnNext]_vars

(***************************************************************************)
(* Log service (logger/src/server.rs, logger/src/stream.rs): one session   *)
(* of the store.  POST requests write the records of their bodies; one     *)
(* reader (GET) scans the store from its cursor and yields what it finds.  *)
(* A write is visible to the scans that start after it.                    *)
(***************************************************************************)
\* The Uuid of the session
LogSession == 1

\* one hex digit of {:016x}, counted from the left; the line numbers of the
\* model are below 16^7
hex_digit(log_line, i) ==
    IF KeyWidth - i >= 7 THEN 0 ELSE (log_line \div (16 ^ (KeyWidth - i))) % 16

\* LogLineKey::format_key: "{uuid}-{:016x}"
format_key(uuid, log_line) ==
    <<uuid>> \o [i \in 1..KeyWidth |-> hex_digit(log_line, i)]

\* LogLineKey::range_max: format_key(u64::MAX)
range_max(uuid) == <<uuid>> \o [i \in 1..KeyWidth |-> 15]

\* the order of Bytes, for keys of one length
BytesLess(a, b) ==
    \E i \in DOMAIN a :
        /\ a[i] < b[i]
        /\ \A k \in 1..(i - 1) : a[k] = b[k]

RECURSIVE InKeyOrder(_, _)
InKeyOrder(store, keys) ==
    IF keys = {} THEN <<>>
    ELSE LET k == CHOOSE x \in keys : \A y \in keys \ {x} : BytesLess(x, y)
         IN  <<[key |-> k, value |-> store[k]]>> \o InKeyOrder(store, keys \ {k})

\* Db::scan(lo..hi): the items of the half-open range, in key order
scan(store, lo, hi) ==
    InKeyOrder(store, {k \in DOMAIN store : ~BytesLess(k, lo) /\ BytesLess(k, hi)})

\* Db::put_with_options
put(store, k, v) == (k :> v) @@ store

\* POST /{uuid}: post_logs starts
PostLogs(p) ==
    /\ posts[p].pc = "none"
    /\ posts' = [posts EXCEPT ![p] = [pc |-> "open", line_counter |-> 0, read |-> 0]]
    /\ UNCHANGED <<log_db, reader, not_log_vars>>

\* post_logs, one turn of the loop over the body.  parse_ok is whether the
\* line is a Log; write_ok is whether the put succeeds (its error is logged).
PostRecord(p, parse_ok, write_ok) ==
    /\ posts[p].pc = "open"
    /\ posts[p].read < MaxBody
    /\ LET line_counter == posts[p].line_counter + 1
           log_with_line == [message |-> <<p, posts[p].read + 1>>, line |-> line_counter]
       IN  IF parse_ok
           THEN /\ posts' = [posts EXCEPT ![p].line_counter = line_counter,
                                          ![p].read = @ + 1]
                /\ log_db' = IF write_ok
                             THEN put(log_db, format_key(LogSession, line_counter),
                                      log_with_line)
                             ELSE log_db
           ELSE /\ posts' = [posts EXCEPT ![p].read = @ + 1]
                /\ UNCHANGED log_db
    /\ UNCHANGED <<reader, not_log_vars>>

\* post_logs: the body ends
PostEnd(p) ==
    /\ posts[p].pc = "open"
    /\ posts' = [posts EXCEPT ![p].pc = "done"]
    /\ UNCHANGED <<log_db, reader, not_log_vars>>

\* GET /{uuid}: get_logs, the ready event, and the start of into_stream
GetLogs ==
    /\ reader.pc = "none"
    /\ reader' = [reader EXCEPT !.pc = "scan", !.log_line = 0,
                                !.events = <<[event |-> "ready", data |-> <<>>]>>]
    /\ UNCHANGED <<log_db, posts, not_log_vars>>

\* into_stream: db.scan(key.as_bytes()..key.range_max()).  An Err is yielded,
\* dropped by the filter_map of get_logs, and the loop scans again.
ReaderScan(scan_ok) ==
    /\ reader.pc = "scan"
    /\ reader' = IF scan_ok
                 THEN [reader EXCEPT
                          !.pc = "iter", !.items_found = FALSE,
                          !.db_iter = scan(log_db, format_key(LogSession, reader.log_line),
                                           range_max(LogSession))]
                 ELSE reader
    /\ UNCHANGED <<log_db, posts, not_log_vars>>

\* into_stream: while let Ok(Some(item)) = db_iter.next(): key.increment() and
\* the item is yielded; the loop ends on None and on Err
ReaderNext(next_ok) ==
    /\ reader.pc = "iter"
    /\ reader' = IF next_ok /\ reader.db_iter # <<>>
                 THEN [reader EXCEPT
                          !.items_found = TRUE,
                          !.log_line = @ + 1,
                          !.db_iter = Tail(@),
                          !.events = Append(@, [event |-> "message",
                                                data |-> Head(reader.db_iter).value])]
                 ELSE [reader EXCEPT !.pc = "scan", !.db_iter = <<>>]
    /\ UNCHANGED <<log_db, posts, not_log_vars>>

LogNext ==
    \/ \E p \in 1..MaxPosts : PostLogs(p)
    \/ \E p \in 1..MaxPosts, parse_ok \in BOOLEAN, write_ok \in BOOLEAN :
           PostRecord(p, parse_ok, write_ok)
    \/ \E p \in 1..MaxPosts : PostEnd(p)
    \/ GetLogs
    \/ \E scan_ok \in BOOLEAN : ReaderScan(scan_ok)
    \/ \E next_ok \in BOOLEAN : ReaderNext(next_ok)

LogSpec == OneAgentInit /\ [][LogNext]_vars

(***************************************************************************)
(* Guest-host control channel of one VM (runner/src/vsock.rs,              *)
(* runner/src/vm_impl/linux.rs).  start_unix_config_server accepts the     *)
(* connections of the guest and spawns handle_guest_connection for each;   *)
(* LinuxVm::wait polls job_result and the cloud-hypervisor process.  The   *)
(* guest sends any message at any time; a read can fail.                   *)
(***************************************************************************)
\* job_config.id of the session
VsockJob == 1

\* VsockGuestMessage, and the Err of read_message
GuestMessages ==
    [type : {"Ready", "Log"}, id : JobIds, success : {FALSE}]
        \cup [type : {"Complete"}, id : JobIds, success : BOOLEAN]
        \cup {[type |-> "Err", id |-> 0, success |-> FALSE]}

\* a handler that takes the messages of every job
id_matches_any(id) == TRUE

\* the guards `if id == job_id` of handle_guest_connection
id_matches(id) == id = VsockJob

\* the message handled by the step
Handled(c, stage, msg) ==
    [conn |-> c, stage |-> stage, type |-> msg.type, id |-> msg.id, success |-> msg.success]

\* start_unix_config_server, the accept arm: the handler is spawned and writes
\* the JobConfig; write_ok is whether the write succeeds
Accept(c, write_ok) ==
    /\ vsock_server \in {"listening", "notified"}
    /\ vm_proc.state = "running"
    /\ guest_conns[c].pc = "none"
    /\ guest_conns' = [guest_conns EXCEPT ![c] = IF write_ok
                                                 THEN [pc |-> "handshake", end |-> "none"]
                                                 ELSE [pc |-> "closed", end |-> "lost"]]
    /\ guest_msg' = NoGuestMessage
    /\ UNCHANGED <<vsock_server, job_result, stored, log_tx, vm_proc, vm_wait,
                   not_vsock_vars>>

\* handle_guest_connection, the acknowledgement: Ready with the job id, or an
\* Err that ends the handler and drops the stream
Handshake(c, msg) ==
    /\ guest_conns[c].pc = "handshake"
    /\ guest_conns' = [guest_conns EXCEPT ![c] =
           IF msg.type = "Ready" /\ id_matches(msg.id)
           THEN [pc |-> "loop", end |-> "none"]
           ELSE [pc |-> "closed",
                 end |-> IF msg.type = "Err" THEN "lost" ELSE "violation"]]
    /\ guest_msg' = Handled(c, "handshake", msg)
    /\ UNCHANGED <<vsock_server, job_result, stored, log_tx, vm_proc, vm_wait,
                   not_vsock_vars>>

\* handle_guest_connection, one turn of its loop, and what follows the loop
\* when the turn breaks it: the result is stored and the server is notified
GuestMessage(c, msg) ==
    /\ guest_conns[c].pc = "loop"
    /\ msg.type = "Log" /\ id_matches(msg.id) => log_tx < MaxLogs
    /\ guest_msg' = Handled(c, "loop", msg)
    /\ IF msg.type = "Complete" /\ id_matches(msg.id)
       THEN /\ job_result' = [some |-> TRUE, success |-> msg.success]
            /\ stored' = stored + 1
            /\ vsock_server' = IF vsock_server = "listening" THEN "notified"
                               ELSE vsock_server
            /\ guest_conns' = [guest_conns EXCEPT ![c] = [pc |-> "closed",
                                                          end |-> "complete"]]
            /\ UNCHANGED log_tx
       ELSE IF msg.type = "Log" /\ id_matches(msg.id)
       THEN /\ log_tx' = log_tx + 1
            /\ UNCHANGED <<job_result, stored, vsock_server, guest_conns>>
       ELSE IF msg.type = "Err"
       THEN /\ guest_conns' = [guest_conns EXCEPT ![c] = [pc |-> "closed", end |-> "lost"]]
            /\ UNCHANGED <<job_result, stored, vsock_server, log_tx>>
       ELSE UNCHANGED <<job_result, stored, vsock_server, log_tx, guest_conns>>
    /\ UNCHANGED <<vm_proc, vm_wait, not_vsock_vars>>

\* start_unix_config_server, the notified arm: the loop ends
ServerStops ==
    /\ vsock_server = "notified"
    /\ vsock_server' = "stopped"
    /\ guest_msg' = NoGuestMessage
    /\ UNCHANGED <<guest_conns, job_result, stored, log_tx, vm_proc, vm_wait,
                   not_vsock_vars>>

\* The cloud-hypervisor process exits by itself
ProcessExits(exit_code) ==
    /\ vm_proc.state = "running"
    /\ vm_proc' = [state |-> "exited", exit_code |-> exit_code]
    /\ guest_msg' = NoGuestMessage
    /\ UNCHANGED <<vsock_server, guest_conns, job_result, stored, log_tx, vm_wait,
                   not_vsock_vars>>

\* LinuxVm::wait, a turn of its loop that returns: with the job result, after
\* shutdown() has aborted the server and killed the process, or with the exit
\* code of a process that has exited
WaitReturns ==
    /\ vm_wait = "none"
    /\ job_result.some \/ vm_proc.state = "exited"
    /\ IF job_result.some
       THEN /\ vm_wait' = IF job_result.success THEN "Success" ELSE "Failure"
            /\ vsock_server' = "stopped"
            /\ vm_proc' = IF vm_proc.state = "running"
                          THEN [state |-> "exited", exit_code |-> 1] ELSE vm_proc
       ELSE /\ vm_wait' = IF vm_proc.exit_code = 0 THEN "Success" ELSE "Failure"
            /\ UNCHANGED <<vsock_server, vm_proc>>
    /\ guest_msg' = NoGuestMessage
    /\ UNCHANGED <<guest_conns, job_result, stored, log_tx, not_vsock_vars>>

VsockNext ==
    \/ \E c \in 1..MaxConns, write_ok \in BOOLEAN : Accept(c, write_ok)
    \/ \E c \in 1..MaxConns, msg \in GuestMessages : Handshake(c, msg)
    \/ \E c \in 1..MaxConns, msg \in GuestMessages : GuestMessage(c, msg)
    \/ ServerStops
    \/ \E exit_code \in {0, 1} : ProcessExits(exit_code)
    \/ WaitReturns

VsockSpec == OneAgentInit /\ [][VsockNext]_vars

(***************************************************************************)
(* Runner agent: the IP pool and its guards                                *)
(* (runner/src/resource_manager.rs).  Tasks create IpGuards, drop them and *)
(* take their addresses.  Address i of the model is the i-th address of    *)
(* the pool, 10.0.0.(i + 1).                                               *)
(***************************************************************************)
\* the i-th address that ResourceManager::new pushes into the pool
Ipv4Addr_new(i) == <<10, 0, 0, i + 1>>

\* ResourceManager::allocate_ip: free_ips.pop_front()
allocate_ip(pool) ==
    IF pool = <<>> THEN [ip |-> 0, free_ips |-> pool]
    ELSE [ip |-> Head(pool), free_ips |-> Tail(pool)]

\* a take that leaves the address in the guard
ip_take_keep(guard) == [guard EXCEPT !.state = "taken", !.took = guard.ip]

\* IpGuard::take: self.ip.take(), and self is dropped with no address
ip_take(guard) == [guard EXCEPT !.state = "taken", !.ip = 0, !.took = guard.ip]

\* Drop for IpGuard: the addresses for which it spawns release_ip
ip_drop(guard) == IF guard.ip # 0 THEN {guard.ip} ELSE {}

\* IpGuard::new: None when the pool is empty
IpGuardNew(g) ==
    /\ Alive
    /\ ip_guards[g].state = "unused"
    /\ LET res == allocate_ip(free_ips)
       IN  /\ free_ips' = res.free_ips
           /\ ip_guards' = [ip_guards EXCEPT ![g] =
                  IF res.ip = 0 THEN [NoIpGuard EXCEPT !.state = "refused"]
                  ELSE [NoIpGuard EXCEPT !.state = "held", !.ip = res.ip]]
    /\ UNCHANGED <<ip_tasks, not_ip_vars>>

\* An IpGuard goes out of scope
IpGuardDrop(g) ==
    /\ Alive
    /\ ip_guards[g].state = "held"
    /\ ip_guards' = [ip_guards EXCEPT ![g].state = "dropped"]
    /\ ip_tasks' = ip_tasks \cup ip_drop(ip_guards[g])
    /\ UNCHANGED <<free_ips, not_ip_vars>>

\* IpGuard::take, with the drop of the guard it consumes
IpGuardTake(g) ==
    /\ Alive
    /\ ip_guards[g].state = "held"
    /\ ip_guards' = [ip_guards EXCEPT ![g] = ip_take(ip_guards[g])]
    /\ ip_tasks' = ip_tasks \cup ip_drop(ip_take(ip_guards[g]))
    /\ UNCHANGED <<free_ips, not_ip_vars>>

IpNext ==
    \/ \E g \in 1..MaxIpGuards : IpGuardNew(g)
    \/ \E g \in 1..MaxIpGuards : IpGuardDrop(g)
    \/ \E g \in 1..MaxIpGuards : IpGuardTake(g)
    \/ \E ip \in 1..MaxIps : IpReleaseTask(ip)

IpSpec == OneAgentInit /\ [][IpNext]_vars

(***************************************************************************)
(* Control plane: the cloud-config document of a push (cloudconfig.rs).     *)
(* A memory string is its numeral, a sequence of characters that are the    *)
(* digits 0..9 or something else (NotDigit), and its unit suffix as typed.  *)
(***************************************************************************)
NotDigit == 0 - 1

\* str::to_lowercase, on the suffixes of the memory strings
to_lowercase(s) ==
    CASE s \in {"mb", "MB", "Mb", "mB"} -> "mb"
      [] s \in {"gb", "GB", "Gb", "gB"} -> "gb"
      [] s \in {"kb", "KB"} -> "kb"
      [] OTHER -> s

\* str::parse::<u32> of a numeral of at most seven characters: no value for
\* the empty string and for one with a character that is not a digit
RECURSIVE parse_u32(_)
parse_u32(num_str) ==
    IF num_str = <<>> THEN [ok |-> FALSE, num |-> 0]
    ELSE LET last == num_str[Len(num_str)]
             init == SubSeq(num_str, 1, Len(num_str) - 1)
             rest == IF init = <<>> THEN [ok |-> TRUE, num |-> 0] ELSE parse_u32(init)
         IN  IF last = NotDigit \/ ~rest.ok THEN [ok |-> FALSE, num |-> 0]
             ELSE [ok |-> TRUE, num |-> rest.num * 10 + last]

\* a lowercased memory string as the characters a message shows
text(s) ==
    [i \in 1..Len(s.digits) |->
        IF s.digits[i] = NotDigit THEN "x"
        ELSE <<"0", "1", "2", "3", "4", "5", "6", "7", "8", "9">>[s.digits[i] + 1]]
    \o <<to_lowercase(s.unit)>>

\* the error messages of the parser, as the pieces they are formatted from
InvalidMemorySize(s) == <<"Invalid memory size: ">> \o text(s)
MustEndWithUnit(s) == <<"Memory size must end with 'mb' or 'gb': ">> \o text(s)
NotSupported(name) ==
    <<"Platform '", name,
      "' is not supported. Only 'x86_64-linux' and 'aarch64-darwin' are allowed">>

\* str::contains, for a needle that is a piece of the format string
contains(message, needle) == \E i \in DOMAIN message : message[i] = needle

\* the least u32 whose product with 1024 is not a u32: 2^32 / 1024
GbOverflow == 4194304

MemOk(mb) == [ok |-> TRUE, panic |-> FALSE, mb |-> mb, err |-> NoError]
MemErr(e) == [ok |-> FALSE, panic |-> FALSE, mb |-> 0, err |-> e]
MemPanic == [ok |-> FALSE, panic |-> TRUE, mb |-> 0, err |-> NoError]

\* parse_memory.  num * 1024 is a u32 multiplication: past u32::MAX it panics
\* in a build with overflow checks and wraps in a build without.
parse_memory(s, overflow_checks) ==
    LET unit == to_lowercase(s.unit)
        n == parse_u32(s.digits)
    IN  IF unit = "gb"
        THEN IF ~n.ok THEN MemErr(InvalidMemorySize(s))
             ELSE IF n.num >= GbOverflow /\ overflow_checks THEN MemPanic
             ELSE MemOk((n.num % GbOverflow) * 1024)
        ELSE IF unit = "mb"
        THEN IF ~n.ok THEN MemErr(InvalidMemorySize(s)) ELSE MemOk(n.num)
        ELSE MemErr(MustEndWithUnit(s))

\* an Option that is Some
Some(v) == [some |-> TRUE, v |-> v]

DEFAULT_MEMORY == [digits |-> <<4>>, unit |-> "gb"]
DEFAULT_CPUS == 2

\* PlatformConfig::Simple and PlatformConfig::Detailed
Simple(name) == [name |-> name, memory |-> None, cpus |-> None]
Detailed(name, memory, cpus) == [name |-> name, memory |-> memory, cpus |-> cpus]

\* the platforms_raw of a document without a platforms list
DefaultPlatforms == <<Simple("x86_64-linux"), Simple("aarch64-darwin")>>

\* the match on name.as_str()
KnownPlatform(name) == name \in {"x86_64-linux", "aarch64-darwin"}
platform_of(name) == IF name = "x86_64-linux" THEN X86_64Linux ELSE AArch64Darwin

CloudErr(e) == [ok |-> FALSE, panic |-> FALSE, vms |-> <<>>, err |-> e]
CloudPanic == [ok |-> FALSE, panic |-> TRUE, vms |-> <<>>, err |-> NoError]

\* the closure of FinalCloud::new: one platform entry to its VM, or the error
\* it returns
platform_vm(platform_config, cloud_memory_mb, cloud_cpus, overflow_checks) ==
    IF ~KnownPlatform(platform_config.name)
    THEN CloudErr(NotSupported(platform_config.name))
    ELSE LET mem == IF platform_config.memory.some
                    THEN parse_memory(platform_config.memory.v, overflow_checks)
                    ELSE MemOk(cloud_memory_mb)
             cpus == IF platform_config.cpus.some THEN platform_config.cpus.v
                     ELSE cloud_cpus
         IN  IF mem.panic THEN CloudPanic
             ELSE IF ~mem.ok THEN CloudErr(mem.err)
             ELSE CloudOk(<<[cpu_count |-> cpus, memory_size_mb |-> mem.mb,
                             platform |-> platform_of(platform_config.name)]>>)

\* collect::<Result<Vec<VM>, String>>: the VMs of the entries in their order,
\* or the error of the first entry that has one
RECURSIVE collect(_, _, _, _)
collect(platforms_raw, cloud_memory_mb, cloud_cpus, overflow_checks) ==
    IF platforms_raw = <<>> THEN CloudOk(<<>>)
    ELSE LET first == platform_vm(Head(platforms_raw), cloud_memory_mb, cloud_cpus,
                                  overflow_checks)
             rest == collect(Tail(platforms_raw), cloud_memory_mb, cloud_cpus,
                             overflow_checks)
         IN  IF ~first.ok THEN first
             ELSE IF ~rest.ok THEN rest
             ELSE CloudOk(first.vms \o rest.vms)

\* FinalCloud::new, on the Config that serde_yaml read
FinalCloud_new(cloud, overflow_checks) ==
    LET cloud_memory_str == IF cloud.memory.some THEN cloud.memory.v ELSE DEFAULT_MEMORY
        cloud_memory == parse_memory(cloud_memory_str, overflow_checks)
        cloud_cpus == IF cloud.cpus.some THEN cloud.cpus.v ELSE DEFAULT_CPUS
        platforms_raw == IF cloud.platforms.some THEN cloud.platforms.v
                         ELSE DefaultPlatforms
    IN  IF cloud_memory.panic THEN CloudPanic
        ELSE IF ~cloud_memory.ok THEN CloudErr(cloud_memory.err)
        ELSE collect(platforms_raw, cloud_memory.mb, cloud_cpus, overflow_checks)

\* The documents of a run
MemoryStrings ==
    {[digits |-> <<1, 5, 0>>, unit |-> "mb"], [digits |-> <<2, 0, 0>>, unit |-> "MB"],
     [digits |-> <<1>>, unit |-> "Gb"], [digits |-> <<2>>, unit |-> "kb"],
     [digits |-> <<NotDigit, 1>>, unit |-> "gb"],
     [digits |-> <<4, 1, 9, 4, 3, 0, 4>>, unit |-> "gb"]}
EntryMemory == {None} \cup {Some(s) : s \in {s \in MemoryStrings : Len(s.digits) <= 3}}
PlatformNames == {"x86_64-linux", "aarch64-darwin", "custom-platform"}
PlatformConfigs ==
    {Simple(n) : n \in PlatformNames} \cup
    {Detailed(n, m, c) : n \in PlatformNames, m \in EntryMemory, c \in {None, Some(1)}}
PlatformLists ==
    {<<>>} \cup {<<p>> : p \in PlatformConfigs} \cup
    {<<p, q>> : p \in PlatformConfigs, q \in {Simple(n) : n \in PlatformNames}}
Clouds ==
    {NoCloud} \cup
    [memory : {None} \cup {Some(s) : s \in MemoryStrings},
     cpus : {None, Some(2)},
     platforms : {None} \cup {Some(l) : l \in PlatformLists}]

\* FinalCloud::new(devenv_config_str), in either build profile; a run parses
\* one document
ParseCloudConfig(cloud, overflow_checks) ==
    /\ ~final_cloud.parsed
    /\ final_cloud' = [cloud |-> cloud, parsed |-> TRUE,
                       result |-> FinalCloud_new(cloud, overflow_checks)]
    /\ UNCHANGED not_cloud_vars

CloudNext == \E cloud \in Clouds, overflow_checks \in BOOLEAN :
                 ParseCloudConfig(cloud, overflow_checks)

CloudSpec == OneAgentInit /\ [][CloudNext]_vars

(***************************************************************************)
(* Runner agent: the job manager and the two tasks that call it            *)
(* (runner/src/job_manager.rs, runner/src/bin/runner.rs), step by step.    *)
(* The main loop handles one frame or one status event at a time; the      *)
(* completion handler handles one VmCompletionEvent at a time.  Both take  *)
(* the write lock of JobManager.jobs and send on status_tx, whose only     *)
(* receiver is the main loop.  A VM task sends its one completion event at *)
(* any time after launch_vm.  The control plane sends JobClaimed at most   *)
(* once per job and a stop frame at most once per job, after JobClaimed.   *)
(***************************************************************************)
Tasks == {"main", "handler"}

\* where a task is when it is not inside a call: the select of the main loop,
\* the recv of the completion handler
Idle(t) == IF t = "main" THEN "select" ELSE "recv"

\* status_tx.send(event).await cannot complete: the channel is full
ChannelFull == Len(job_status_rx) >= StatusCap

\* the main loop, job_status_rx arm: a Complete event is sent to the control
\* plane as UpdateJobStatus, the others are logged
MainStatusEvent ==
    /\ tasks["main"].pc = "select"
    /\ job_status_rx # <<>>
    /\ LET event == Head(job_status_rx)
       IN  updates' = IF event.status.tag = "Complete"
                      THEN [updates EXCEPT ![event.job_id] = @ + 1]
                      ELSE updates
    /\ job_status_rx' = Tail(job_status_rx)
    /\ UNCHANGED <<local_jobs, completion_rx, emitted, jobs_lock, tasks, launched, stops,
                   not_jm_vars>>

\* the main loop, read arm, ServerMessage::JobClaimed: up to the call of
\* register_job
MainJobClaimed(j) ==
    /\ tasks["main"].pc = "select"
    /\ local_jobs[Agent][j] = NoJob
    /\ tasks' = [tasks EXCEPT !["main"] = [pc |-> "register", job |-> j, status |-> Queued]]
    /\ UNCHANGED <<local_jobs, job_status_rx, completion_rx, emitted, jobs_lock, updates,
                   launched, stops, not_jm_vars>>

\* JobManager::register_job up to its send: the write lock is taken and the
\* job inserted as Queued
RegisterJob ==
    /\ tasks["main"].pc = "register"
    /\ jobs_lock = "free"
    /\ jobs_lock' = "main"
    /\ local_jobs' = [local_jobs EXCEPT ![Agent][tasks["main"].job] = Queued]
    /\ tasks' = [tasks EXCEPT !["main"].pc = "register_send"]
    /\ UNCHANGED <<job_status_rx, completion_rx, emitted, updates, launched, stops,
                   not_jm_vars>>

\* status_tx.send(event).await completes in register_job or update_job_status;
\* the function returns and its guard is dropped
SendEvent(t) ==
    /\ tasks[t].pc \in {"register_send", "update_send"}
    /\ ~ChannelFull
    /\ job_status_rx' = Append(job_status_rx,
                               [job_id |-> tasks[t].job, status |-> tasks[t].status])
    /\ jobs_lock' = "free"
    /\ tasks' = [tasks EXCEPT ![t].pc = IF @ = "register_send" THEN "launch" ELSE Idle(t)]
    /\ UNCHANGED <<local_jobs, completion_rx, emitted, updates, launched, stops,
                   not_jm_vars>>

\* JobClaimed after register_job: setup_log_stream and launch_vm, which spawns
\* the VM task and returns Ok; set_job_running is called next
MainLaunchVm ==
    /\ tasks["main"].pc = "launch"
    /\ launched' = launched \cup {tasks["main"].job}
    /\ tasks' = [tasks EXCEPT !["main"].pc = "update", !["main"].status = Running]
    /\ UNCHANGED <<local_jobs, job_status_rx, completion_rx, emitted, jobs_lock, updates,
                   stops, not_jm_vars>>

\* JobManager::update_job_status up to its send or its return: the write lock
\* is taken; an unknown job, an unchanged status and a transition that is not
\* allowed return at once
UpdateJobStatusLocked(t) ==
    /\ tasks[t].pc = "update"
    /\ jobs_lock = "free"
    /\ LET res == jm_update_job_status(local_jobs[Agent], tasks[t].job, tasks[t].status)
       IN  /\ local_jobs' = [local_jobs EXCEPT ![Agent] = res.jobs]
           /\ IF res.events = <<>>
              THEN /\ tasks' = [tasks EXCEPT ![t].pc = Idle(t)]
                   /\ UNCHANGED jobs_lock
              ELSE /\ tasks' = [tasks EXCEPT ![t].pc = "update_send"]
                   /\ jobs_lock' = t
    /\ UNCHANGED <<job_status_rx, completion_rx, emitted, updates, launched, stops,
                   not_jm_vars>>

\* the main loop, read arm, ServerMessage::JobTimedOut and ::JobCancelled: up
\* to the call of complete_job
MainJobStopped(j, completion_status) ==
    /\ tasks["main"].pc = "select"
    /\ j \in launched \ stops
    /\ stops' = stops \cup {j}
    /\ tasks' = [tasks EXCEPT !["main"] = [pc |-> "update", job |-> j,
                                           status |-> Complete(completion_status)]]
    /\ UNCHANGED <<local_jobs, job_status_rx, completion_rx, emitted, jobs_lock, updates,
                   launched, not_jm_vars>>

\* the VM task of a launched job sends its VmCompletionEvent
VmCompletes(j, status) ==
    /\ j \in launched
    /\ emitted[j] = 0
    /\ emitted' = [emitted EXCEPT ![j] = 1]
    /\ completion_rx' = Append(completion_rx, [job_id |-> j, status |-> status])
    /\ UNCHANGED <<local_jobs, job_status_rx, jobs_lock, tasks, updates, launched, stops,
                   not_jm_vars>>

\* the completion handler: completion_rx.recv(), up to the call of complete_job
HandlerRecv ==
    /\ tasks["handler"].pc = "recv"
    /\ completion_rx # <<>>
    /\ LET event == Head(completion_rx)
       IN  tasks' = [tasks EXCEPT !["handler"] =
                        [pc |-> "update", job |-> event.job_id,
                         status |-> Complete(IF event.status = "Success" THEN "Success"
                                             ELSE "Failed")]]
    /\ completion_rx' = Tail(completion_rx)
    /\ UNCHANGED <<local_jobs, job_status_rx, emitted, jobs_lock, updates, launched, stops,
                   not_jm_vars>>

JobManagerNext ==
    \/ MainStatusEvent
    \/ \E j \in JobIds : MainJobClaimed(j)
    \/ RegisterJob
    \/ \E t \in Tasks : SendEvent(t)
    \/ MainLaunchVm
    \/ \E t \in Tasks : UpdateJobStatusLocked(t)
    \/ \E j \in JobIds, c \in {"TimedOut", "Cancelled"} : MainJobStopped(j, c)
    \/ \E j \in JobIds, status \in VmExitStatus : VmCompletes(j, status)
    \/ HandlerRecv

JobManagerSpec == OneAgentInit /\ [][JobManagerNext]_vars

(***************************************************************************)
(* Control plane: the retry endpoint called again and again (job/serve.rs, *)
(* job/model.rs).  No runner is connected; a job is pushed, cancelled and  *)
(* retried, and the table may hold MaxRetryRows rows.                      *)
(***************************************************************************)
RetryInit ==
    /\ limits = [agents |-> 1, jobs |-> MaxRetryRows]
    /\ jobs = <<>>
    /\ jobs_github = {}
    /\ runners_table = <<>>
    /\ runners = <<>>
    /\ to_agent = [r \in RunnerIds |-> <<>>]
    /\ now = 1
    /\ http = NoResponse
    /\ claimed = [j \in JobIds |-> {}]
    /\ claim = NoClaim
    /\ conn = [a \in Agents |-> NULL]
    /\ local_jobs = [a \in Agents |-> [j \in JobIds |-> NoJob]]
    /\ vms = [a \in Agents |-> [j \in JobIds |-> NoVm]]
    /\ github_commit = {}
    /\ jobs_github_commit = <<>>
    /\ webhook = NoWebhook
    /\ request = NoRequest
    /\ rm_limits = with_platform_defaults
    /\ ResourceManager_new
    /\ AgentInit
    /\ LogInit
    /\ VsockInit
    /\ ip_guards = [g \in 1..MaxIpGuards |-> NoIpGuard]
    /\ CloudConfigInit
    /\ JobManagerInit
    /\ guard_job_id = [g \in AllocIds |-> NULL]

RetryNext ==
    \/ \E vm \in VMs, forge_ok, db_ok \in BOOLEAN : CreateJob(vm, {}, forge_ok, db_ok)
    \/ \E id \in 1..MaxRetryRows, forge_ok \in BOOLEAN : CancelJob(id, forge_ok)
    \/ \E id \in 1..MaxRetryRows, forge_ok, db_ok \in BOOLEAN :
           RetryJob(id, {}, forge_ok, db_ok)
    \/ Tick

RetrySpec == RetryInit /\ [][RetryNext]_vars

(***************************************************************************)
(* Resource manager called with job ids the caller chooses                 *)
(* (runner/src/resource_manager.rs).  allocate_resources takes the job id  *)
(* as a parameter and registers the VM under it with HashMap::insert; the  *)
(* guard it returns remembers that id, and release_job looks the id up.    *)
(* Guards are numbered in the order in which they are made.                *)
(***************************************************************************)
\* ResourceManager::allocate_resources with the caller's job id, and
\* ResourceGuard::new
AllocateResources(job_id, vm) ==
    LET g == 1 + Cardinality({h \in AllocIds : guards[h].state # "none"})
        res == allocate_resources(allocation, job_id, vm, rm_limits)
    IN  /\ g \in AllocIds
        /\ allocation' = res.state
        /\ guards' = IF res.ok THEN [guards EXCEPT ![g] = [state |-> "held", vm |-> vm]]
                               ELSE guards
        /\ guard_job_id' = IF res.ok THEN [guard_job_id EXCEPT ![g] = job_id]
                                     ELSE guard_job_id
        /\ check' = Checked("allocate_resources", vm.cpu_count, vm.memory_size_mb, res.ok)
        /\ UNCHANGED <<rm_limits, releases, core_vars, webhook_vars, request,
                       agent_vars, wrote, log_vars, vsock_vars, ip_guards, final_cloud,
                       jm_vars>>

\* the task spawned by Drop for ResourceGuard: release_job(job_id) with the
\* id the guard holds
ReleaseTask(g) ==
    /\ guards[g].state = "dropped"
    /\ LET res == release_job(allocation, guard_job_id[g])
       IN  /\ allocation' = res.state
           /\ releases' = IF res.found THEN [releases EXCEPT ![g].guard = @ + 1]
                                       ELSE releases
    /\ guards' = [guards EXCEPT ![g].state = "released"]
    /\ check' = NoCheck
    /\ UNCHANGED <<rm_limits, core_vars, webhook_vars, request, agent_vars, wrote,
                   side_vars>>

\* release_job called once with the id that ResourceGuard::take returned
ReleaseJob(g) ==
    /\ guards[g].state = "taken"
    /\ LET res == release_job(allocation, guard_job_id[g])
       IN  /\ allocation' = res.state
           /\ releases' = IF res.found THEN [releases EXCEPT ![g].manual = @ + 1]
                                       ELSE releases
    /\ guards' = [guards EXCEPT ![g].state = "released"]
    /\ check' = NoCheck
    /\ UNCHANGED <<rm_limits, core_vars, webhook_vars, request, agent_vars, wrote,
                   side_vars>>

JobIdNext ==
    \/ \E job_id \in JobIds, vm \in Requests : AllocateResources(job_id, vm)
    \/ \E g \in AllocIds : RmDropGuard(g)
    \/ \E g \in AllocIds : ReleaseTask(g)
    \/ \E g \in AllocIds : RmTakeGuard(g)
    \/ \E g \in AllocIds : ReleaseJob(g)

JobIdSpec == ResourceInit /\ [][JobIdNext]_vars

(***************************************************************************)
(* Control plane: the timeout sweeper and one agent (runner/serve.rs,      *)
(* job/model.rs).  One agent dials, claims the pushed jobs and runs them;  *)
(* its connection can be lost at any step.  No API request is made: a job  *)
(* ends when its VM exits or when job_timeout_checker selects it.          *)
(***************************************************************************)
SweepNext ==
    \/ \E vm \in VMs, runner_ids \in SUBSET DOMAIN runners_table, forge_ok, db_ok \in BOOLEAN :
           CreateJob(vm, runner_ids, forge_ok, db_ok)
    \/ \E a \in Agents : RunnerConnect(a)
    \/ \E r \in RunnerIds : ForwardChannel(r)
    \/ \E r \in RunnerIds : Disconnect(r)
    \/ \E forge_ok \in BOOLEAN : JobTimeoutChecker(forge_ok)
    \/ Tick
    \/ \E a \in Agents, forge_ok \in BOOLEAN : OnNewJobAvailable(a, forge_ok)
    \/ \E a \in Agents, created, completion_first, forge_ok \in BOOLEAN :
           OnJobClaimed(a, created, completion_first, forge_ok)
    \/ \E a \in Agents, forge_ok \in BOOLEAN : OnJobTimedOut(a, forge_ok)
    \/ \E a \in Agents, j \in JobIds, exit_status \in {"Success", "Failure"},
          forge_ok \in BOOLEAN : VmExit(a, j, exit_status, forge_ok)

SweepSpec == OneAgentInit /\ [][SweepNext]_vars

\* The steps the system takes by itself, as in FairSpec
FairSweepSpec ==
    /\ SweepSpec
    /\ WF_vars(\E r \in RunnerIds : ForwardChannel(r))
    /\ WF_vars(\E a \in Agents, forge_ok \in BOOLEAN : OnNewJobAvailable(a, forge_ok))
    /\ WF_vars(\E a \in Agents, created, completion_first, forge_ok \in BOOLEAN :
                   OnJobClaimed(a, created, completion_first, forge_ok))
    /\ WF_vars(\E a \in Agents, forge_ok \in BOOLEAN : OnJobTimedOut(a, forge_ok))
    /\ WF_vars(\E a \in Agents, j \in JobIds, exit_status \in {"Success", "Failure"},
                  forge_ok \in BOOLEAN : VmExit(a, j, exit_status, forge_ok))
    /\ WF_vars(\E forge_ok \in BOOLEAN : JobTimeoutChecker(forge_ok))
    /\ WF_vars(\E a \in Agents : RunnerConnect(a))
    /\ WF_vars(Tick)

(***************************************************************************)
(* Properties.                                                             *)
(***************************************************************************)
status_of(tbl, j) == from_sql(tbl[j].status)

\* occurrences of a message in a queue
Count(q, msg) == Cardinality({i \in DOMAIN q : q[i] = msg})

\* C1: for every job, at most one runner is ever sent JobClaimed for it and
\* the row's runner_id is that runner; a ClaimJob that wins finds the job
\* Queued and unassigned and is answered with JobClaimed, and a ClaimJob that
\* loses changes no row and is answered with nothing.
C1_SingleClaim ==
    /\ [](\A j \in JobIds :
            /\ Cardinality(claimed[j]) <= 1
            /\ \A r \in claimed[j] : j \in DOMAIN jobs /\ jobs[j].runner_id = r)
    /\ [][claim'.id # NULL =>
            LET j == claim'.id
                r == claim'.runner_id
                sent == to_agent'[r]
            IN  IF claim'.claimed
                THEN /\ status_of(jobs, j) = Queued
                     /\ claimed[j] = {}
                     /\ status_of(jobs', j) = Running
                     /\ jobs'[j].runner_id = r
                     /\ sent = Append(Tail(to_agent[r]),
                                      JobClaimed(j, Head(to_agent[r]).vm))
                     /\ \A x \in RunnerIds \ {r} : to_agent'[x] = to_agent[x]
                ELSE /\ jobs' = jobs
                     /\ to_agent' = [to_agent EXCEPT ![r] = Tail(@)]]_vars

\* C1 witness: a ClaimJob for a job already claimed by another runner has
\* just been handled and lost.
C1_Witness ==
    /\ claim.id # NULL
    /\ ~claim.claimed
    /\ claimed[claim.id] # {}
    /\ claim.runner_id \notin claimed[claim.id]

\* C2: the status of a job only moves Queued -> Running -> Complete(_), or
\* Queued -> Complete(Cancelled); once it is Complete(_) it is never written
\* with another value.
C2_StatusSequence ==
    [][\A j \in DOMAIN jobs :
          jobs'[j].status # jobs[j].status =>
             \/ status_of(jobs, j) = Queued /\ status_of(jobs', j) = Running
             \/ status_of(jobs, j) = Running /\ status_of(jobs', j).tag = "Complete"
             \/ status_of(jobs, j) = Queued
                    /\ status_of(jobs', j) = Complete("Cancelled")]_vars

\* C3: a job whose status is Running has runner_id and started_at set.
C3_RunningHasRunnerAndStart ==
    \A j \in DOMAIN jobs :
        status_of(jobs, j) = Running =>
            jobs[j].runner_id # NULL /\ jobs[j].started_at # NULL

\* C4: a job whose status is Complete(_) has finished_at set.
C4_CompleteHasFinish ==
    \A j \in DOMAIN jobs :
        status_of(jobs, j).tag = "Complete" => jobs[j].finished_at # NULL

\* C5: a cancel request transitions the job exactly when its status is Queued
\* or Running when the row is read; then the row becomes Complete(Cancelled)
\* with finished_at set.  Otherwise it reports did_cancel = false and leaves
\* the row as it is.  No step takes a completed job back to Queued or Running,
\* so every later cancel of the job is of the second kind.
C5_CancelOnce ==
    /\ [][(http'.op = "cancel" /\ http'.id \in DOMAIN jobs) =>
            LET j == http'.id
            IN  IF status_of(jobs, j) \in {Queued, Running}
                THEN /\ http'.did_cancel
                     /\ status_of(jobs', j) = Complete("Cancelled")
                     /\ jobs'[j].finished_at = now
                ELSE /\ ~http'.did_cancel
                     /\ jobs'[j].status = jobs[j].status
                     /\ jobs'[j].finished_at = jobs[j].finished_at]_vars
    /\ [][\A j \in DOMAIN jobs :
            status_of(jobs, j).tag = "Complete" =>
                status_of(jobs', j).tag = "Complete"]_vars

\* C5 witness: a second cancel of a cancelled job has just been refused.
C5_Witness ==
    /\ http.op = "cancel"
    /\ http.id \in DOMAIN jobs
    /\ ~http.did_cancel
    /\ status_of(jobs, http.id) = Complete("Cancelled")

\* the expired jobs of a sweep that are handled before job j and have the
\* same runner
earlier_expired(j) ==
    {k \in find_expired_jobs(jobs, now, TimeoutSeconds) :
        k < j /\ jobs[k].runner_id = jobs[j].runner_id}

\* C6 as stated: in a sweep, an expired Running job whose runner is connected
\* has JobTimedOut queued to that runner and is not changed by the sweeper; one
\* whose runner is not connected has no message queued and becomes
\* Complete(TimedOut) with finished_at set.
C6_ConnectedIsNotified ==
    [][(\E forge_ok \in BOOLEAN : JobTimeoutChecker(forge_ok)) =>
          \A j \in find_expired_jobs(jobs, now, TimeoutSeconds) :
              LET r == jobs[j].runner_id
              IN  IF r \in DOMAIN runners
                  THEN /\ Count(runners'[r], JobTimedOut(j))
                              = Count(runners[r], JobTimedOut(j)) + 1
                       /\ jobs'[j] = jobs[j]
                  ELSE /\ runners' = runners
                       /\ status_of(jobs', j) = Complete("TimedOut")
                       /\ jobs'[j].finished_at # NULL]_vars

\* C6 amended: in a sweep, an expired Running job whose runner is connected
\* and whose channel has room has JobTimedOut queued to that runner and is not
\* changed by the sweeper; when the runner is not connected or its channel is
\* full no message is queued for the job and it becomes Complete(TimedOut)
\* with finished_at set.
C6_NotifiedWhenRoom ==
    [][(\E forge_ok \in BOOLEAN : JobTimeoutChecker(forge_ok)) =>
          \A j \in find_expired_jobs(jobs, now, TimeoutSeconds) :
              LET r == jobs[j].runner_id
              IN  IF /\ r \in DOMAIN runners
                     /\ Len(runners[r]) + Cardinality(earlier_expired(j)) < ChanCap
                  THEN /\ Count(runners'[r], JobTimedOut(j))
                              = Count(runners[r], JobTimedOut(j)) + 1
                       /\ jobs'[j] = jobs[j]
                  ELSE /\ r \in DOMAIN runners =>
                              Count(runners'[r], JobTimedOut(j))
                                  = Count(runners[r], JobTimedOut(j))
                       /\ status_of(jobs', j) = Complete("TimedOut")
                       /\ jobs'[j].finished_at = now]_vars

\* C6 witness: the sweeper has completed a job as TimedOut although its
\* runner is connected (the runner's channel is full and the agent still
\* holds the job as Running).
C6_Witness ==
    \E a \in Agents, j \in DOMAIN jobs :
        /\ conn[a] # NULL
        /\ conn[a] \in DOMAIN runners
        /\ jobs[j].runner_id = conn[a]
        /\ status_of(jobs, j) = Complete("TimedOut")
        /\ local_jobs[a][j] = Running
        /\ Len(runners[conn[a]]) = ChanCap

\* a connected runner that matches job j and has capacity for it
ready_runner(a, j) ==
    /\ conn[a] # NULL
    /\ conn[a] \in DOMAIN runners
    /\ runners_table[conn[a]] = jobs[j].platform
    /\ can_allocate(vms[a], jobs[j].cpus, jobs[j].memory_mb)

waiting(j) ==
    /\ j \in DOMAIN jobs
    /\ status_of(jobs, j) = Queued
    /\ \E a \in Agents : ready_runner(a, j)

\* C7: a Queued job for which a matching runner with capacity is connected
\* is eventually claimed (or stops being in that situation).
C7_EventuallyClaimed ==
    \A j \in JobIds : waiting(j) ~> ~waiting(j)

C9_RetryOnlyFailed ==
    [][(http'.op = "retry" /\ http'.id \in DOMAIN jobs) =>
          IF is_retryable(jobs[http'.id])
          THEN Len(jobs') = Len(jobs) + 1
          ELSE http'.code = BAD_REQUEST /\ jobs' = jobs]_vars

\* C10: a cancel request is answered 200 exactly when it transitioned the
\* job, 400 when the job exists but is neither Queued nor Running (the row is
\* left unchanged), and 404 when no such job exists.
C10_CancelResponse ==
    [][http'.op = "cancel" =>
          LET j == http'.id
          IN  IF j \notin DOMAIN jobs
              THEN http'.code = NOT_FOUND /\ jobs' = jobs
              ELSE IF jobs'[j].status # jobs[j].status
                       \/ jobs'[j].finished_at # jobs[j].finished_at
                   THEN /\ http'.code = OK
                        /\ status_of(jobs, j) \in {Queued, Running}
                   ELSE /\ http'.code = BAD_REQUEST
                        /\ status_of(jobs, j) \notin {Queued, Running}
                        /\ jobs' = jobs]_vars

\* C10 witness: a cancel request for an id without a row has been answered
\* 404 while the table holds other jobs.
C10_Witness ==
    /\ http.op = "cancel"
    /\ http.id \notin DOMAIN jobs
    /\ http.code = NOT_FOUND
    /\ jobs # <<>>

\* The jobs of the push handled by the last step: one row per descriptor,
\* in order, each linked to the commit
PushJobsExist ==
    \A i \in 1..Len(webhook.vms) :
        LET id == webhook.first + i
        IN  /\ id \in DOMAIN jobs
            /\ jobs[id].platform = webhook.vms[i].platform
            /\ status_of(jobs, id) = Queued
            /\ id \in jobs_github
            /\ jobs_github_commit[id] = webhook.commit

\* C11: after a push has been handled, with or without a failure, either the
\* commit row and one Queued job per VM descriptor of it exist, or neither the
\* commit row nor any job row of it exists.
C11_PushAtomic ==
    webhook.commit # NULL =>
        \/ webhook.commit \in github_commit /\ PushJobsExist
        \/ webhook.commit \notin github_commit /\ Len(jobs) = webhook.first

\* The NewJobAvailable frames in a queue
Offers(q) == {q[i] : i \in {k \in DOMAIN q : q[k].type = "NewJobAvailable"}}

\* The frames on their way to runner r: in its channel and on its socket
OffersTo(r) ==
    (IF r \in DOMAIN runners THEN Offers(runners[r]) ELSE {}) \cup Offers(to_agent[r])

\* C12: every NewJobAvailable on its way to a runner, from the broadcast at job
\* creation or from the reply to RequestJob, names a job whose platform is the
\* platform of the runner's row.
C12_PlatformMatch ==
    \A r \in DOMAIN runners_table : \A msg \in OffersTo(r) :
        /\ jobs[msg.id].platform = runners_table[r]
        /\ msg.vm.platform = runners_table[r]

\* C12: one runner holds the broadcast of a job in its channel while another,
\* which connected after the job was created, holds the replies to its two
\* requests.
C12_Witness ==
    /\ limits.jobs = MaxPushed
    /\ \E r1, r2 \in DOMAIN runners :
          /\ r1 # r2
          /\ Offers(runners[r1]) # {}
          /\ Len(to_agent[r2]) = 2
          /\ Offers(to_agent[r2]) = {to_agent[r2][1]}

\* The jobs a RequestJob of runner r is about: Queued, with no runner, of the
\* platform of the runner's row
Requestable(r) ==
    {j \in DOMAIN jobs : /\ status_of(jobs, j) = Queued
                         /\ jobs[j].runner_id = NULL
                         /\ jobs[j].platform = runners_table[r]}

\* The reply to a RequestJob of runner r that may choose among the jobs of S:
\* one NewJobAvailable for the oldest of them, or nothing
ReplyAmong(r, S) ==
    IF S = {} THEN to_agent'[r] = to_agent[r]
    ELSE \E j \in S :
            /\ \A k \in S : j <= k
            /\ to_agent'[r] = Append(to_agent[r],
                   NewJobAvailable(j, [cpu_count |-> jobs[j].cpus,
                                       memory_size_mb |-> jobs[j].memory_mb,
                                       platform |-> jobs[j].platform]))

\* C13 (as stated): the reply to RequestJob is NewJobAvailable for the oldest
\* Queued job with no runner of the runner's platform, and nothing when there
\* is none.
C13_OldestQueued ==
    [][\A r \in RunnerIds, locked \in SUBSET DOMAIN jobs :
          RunnerRequests(r, locked) => ReplyAmong(r, Requestable(r))]_vars

\* C13 (amended): the reply to RequestJob is NewJobAvailable for the oldest
\* Queued job with no runner of the runner's platform whose row no concurrent
\* transaction has locked, and nothing when there is none; a job that is
\* Running or Complete is never offered.
C13_OldestUnlockedQueued ==
    [][\A r \in RunnerIds, locked \in SUBSET DOMAIN jobs :
          RunnerRequests(r, locked) => ReplyAmong(r, Requestable(r) \ locked)]_vars

\* C13: a RequestJob was answered with the older of two jobs it could offer
\* while the row of a job older than both was locked.
C13_Witness ==
    /\ request.runner_id # NULL
    /\ request.reply # <<>>
    /\ \E j1, j2, j3 \in Requestable(request.runner_id) :
          /\ j1 \in request.locked
          /\ j1 < j2 /\ j2 < j3
          /\ request.reply[1].id = j2

\* The cpus, and the memory, of the descriptors of the guards in S
RECURSIVE GuardCpus(_)
GuardCpus(S) ==
    IF S = {} THEN 0
    ELSE LET g == CHOOSE x \in S : TRUE IN guards[g].vm.cpu_count + GuardCpus(S \ {g})

RECURSIVE GuardMemory(_)
GuardMemory(S) ==
    IF S = {} THEN 0
    ELSE LET g == CHOOSE x \in S : TRUE IN guards[g].vm.memory_size_mb + GuardMemory(S \ {g})

C16_WithinLimits ==
    /\ allocation.allocated_cpus <= rm_limits.max_cpus - 1
    /\ allocation.allocated_memory <= rm_limits.max_memory_mb - 100
    /\ rm_limits.max_instances # NoCap =>
           Cardinality(DOMAIN allocation.jobs) <= rm_limits.max_instances.n

\* After a guard was dropped and released, two allocations fill the host up to
\* the reserve and the instance cap
C16_Witness ==
    /\ \E g \in AllocIds : guards[g].state = "released"
    /\ rm_limits.max_instances # NoCap
    /\ Cardinality(DOMAIN allocation.jobs) = rm_limits.max_instances.n
    /\ allocation.allocated_cpus = rm_limits.max_cpus - 1
    /\ allocation.allocated_memory = rm_limits.max_memory_mb - 100

\* C18: on JobTimedOut the agent only asks the VM to shut down.  The terminal
\* state of the job is recorded by the agent when the VM has exited, not
\* before: no job is Complete(TimedOut) in the job manager of an agent whose
\* supervisor for that job is still running its VM.
C18_TimedOutRecordedAfterExit ==
    \A a \in Agents, j \in JobIds :
        local_jobs[a][j] = Complete("TimedOut") => vms[a][j].state # "running"

\* C17: for every job passed to launch_vm the supervisor emits exactly one
\* VmCompletionEvent.  Never two; none while it creates the VM or waits for
\* it, and one from the moment it is done with the VM; and once the VM has
\* exited, was told to shut down, or is being created, the event follows (or
\* the VM runs), whatever Shutdown commands arrive.
C17_OneCompletionEvent ==
    /\ [](\A j \in JobIds :
            /\ emitted[j] <= 1
            /\ emitted[j] = 1 <=> sup[j].pc \in {"cleanup", "done"})
    /\ \A j \in JobIds :
        /\ (sup[j].proc = "exited") ~> (emitted[j] = 1)
        /\ (sup[j].pc = "creating") ~> (emitted[j] = 1 \/ sup[j].proc = "running")

\* One supervisor was told twice to shut its VM down and has sent its event,
\* with the second command left in the channel; another failed to create its
\* VM and has sent its event
C17_Witness ==
    \E j, k \in JobIds :
        /\ sup[j].told /\ sup[j].cmds = 1 /\ sup[j].pc = "done" /\ emitted[j] = 1
        /\ sup[k].alloc = 0 /\ sup[k].pc = "done" /\ emitted[k] = 1

\* The IPs of the pool that no VM and no release task holds
FreeIps == {free_ips[i] : i \in DOMAIN free_ips}

\* C19: the cpu, memory and IP allocations of a job are held for as long as
\* its supervisor has the VM (it waits for the VM or shuts it down), cancelled
\* and timed-out jobs included, and they are given up when the supervisor is
\* done with the VM: the guards are dropped and their release tasks run.
C19_HeldWhileSupervised ==
    \A j \in JobIds :
        /\ sup[j].pc \in {"waiting", "stopping"} =>
               /\ guards[sup[j].alloc].state = "held"
               /\ sup[j].alloc \in DOMAIN allocation.jobs
               /\ allocation.jobs[sup[j].alloc] = sup[j].cfg
               /\ allocation.allocated_cpus >= sup[j].cfg.cpu_count
               /\ allocation.allocated_memory >= sup[j].cfg.memory_size_mb
               /\ sup[j].ip \notin FreeIps \cup ip_tasks
        /\ sup[j].pc \in {"cleanup", "done"} /\ sup[j].alloc # 0 =>
               /\ guards[sup[j].alloc].state \in {"dropped", "released"}
               /\ guards[sup[j].alloc].state = "released" =>
                      sup[j].alloc \notin DOMAIN allocation.jobs
               /\ sup[j].ip \in FreeIps \cup ip_tasks

\* A job was cancelled, its VM is being shut down, and its allocation is the
\* one the resource manager counts
C19_Witness ==
    \E j \in JobIds :
        /\ local_jobs[Agent][j] = Complete("Cancelled")
        /\ sup[j].pc = "stopping"
        /\ DOMAIN allocation.jobs = {sup[j].alloc}
        /\ allocation.allocated_cpus = sup[j].cfg.cpu_count
        /\ allocation.allocated_cpus > 0

\* C20: after SIGINT or SIGTERM the agent writes no ClaimJob and no
\* RequestJob, and its main loop ends only when no launched VM is still with
\* its supervisor, the VMs of cancelled and timed-out jobs included.
C20_DrainWaitsForVms ==
    /\ main_loop.shutting_down => outbox \cap {"ClaimJob", "RequestJob"} = {}
    /\ main_loop.exited =>
           \A j \in JobIds : sup[j].pc \notin {"creating", "waiting", "stopping"}

\* one CPU is free beyond the one the host keeps, and the instance cap, when
\* there is one, is not reached
OneCpuFree ==
    /\ allocation.allocated_cpus + 1 + 1 <= rm_limits.max_cpus
    /\ rm_limits.max_instances # NoCap
           => Cardinality(DOMAIN allocation.jobs) < rm_limits.max_instances.n

Fits(n, used, max) == n = 0 \/ used + n <= max

\* the resource manager can allocate the cpus and the memory of vm: one CPU
\* and 100 MiB stay with the host
HasRoomFor(vm) ==
    /\ Fits(vm.cpu_count, allocation.allocated_cpus + 1, rm_limits.max_cpus)
    /\ Fits(vm.memory_size_mb, allocation.allocated_memory + 100, rm_limits.max_memory_mb)
    /\ rm_limits.max_instances # NoCap
           => Cardinality(DOMAIN allocation.jobs) < rm_limits.max_instances.n

\* C22: the step that handles NewJobAvailable{id, vm} is taken by an agent
\* that is not shutting down; it writes ClaimJob{id, vm} when the resource
\* manager can allocate vm and nothing otherwise, and when it writes nothing
\* the jobs, the allocation, the guards, the IPs, the supervisors and the
\* queues of the agent are as before.
C22_ClaimIffRoom ==
    /\ [](wrote.op = "offer" =>
              /\ ~main_loop.shutting_down
              /\ wrote.frames = (IF HasRoomFor(wrote.vm)
                                 THEN <<ClaimJob(wrote.id, wrote.vm)>> ELSE <<>>))
    /\ [][wrote'.op = "offer" /\ wrote'.frames = <<>> =>
              UNCHANGED <<local_jobs, rm_vars, vmm_vars, ip_vars, loop_vars>>]_vars

\* C22 witness: a job of one CPU is offered while a VM holds the free CPU of
\* the host, and is not claimed
C22_Witness ==
    /\ wrote.op = "offer"
    /\ wrote.frames = <<>>
    /\ wrote.vm.cpu_count = 1
    /\ \E j \in JobIds : sup[j].pc = "waiting"

\* C23: the agent's process ends only after it was told to shut down: a lost
\* connection, or a send that fails or times out, does not end it.
C23_SurvivesSendFailure ==
    main_loop.exited => main_loop.shutting_down

\* the line numbers of the records the reader was sent, in the order sent
LinesRead ==
    LET sent == SelectSeq(reader.events, LAMBDA e : e.event = "message")
    IN  [i \in DOMAIN sent |-> sent[i].data.line]

\* C24: the records a reader is sent carry strictly increasing line numbers:
\* the lines of the session arrive in line-number order and none arrives
\* twice.
C24_EachLineOnceInOrder ==
    \A i, k \in DOMAIN LinesRead : i < k => LinesRead[i] < LinesRead[k]

\* C25: a record stored under a line number of the session stays as stored:
\* the records of a later POST get later line numbers and replace nothing.
C25_NeverOverwritten ==
    [][\A k \in DOMAIN log_db : k \in DOMAIN log_db' /\ log_db'[k] = log_db[k]]_vars

\* C26: in the session of a VM the job result is stored at most once.
C26_OneCompleteRecorded ==
    stored <= 1

\* C27: a session in which a connection was ended because its first message
\* was not the Ready of the job does not end in Success.
C27_ViolationFailsJob ==
    (\E c \in 1..MaxConns : guest_conns[c].end = "violation") => vm_wait # "Success"

\* C28: after the handshake, the step that handles a Log or a Complete that
\* carries another job id leaves the session as it was: the job result, the
\* log lines forwarded, the connections, the server, the process and the
\* outcome of the wait.
C28_WrongIdDropped ==
    [][(/\ guest_msg'.stage = "loop"
        /\ guest_msg'.type \in {"Log", "Complete"}
        /\ guest_msg'.id # VsockJob)
       => UNCHANGED <<job_result, stored, log_tx, guest_conns, vsock_server, vm_proc,
                      vm_wait>>]_vars

\* C28 witness: a Complete of another job was handled on a connection that is
\* past its handshake, and the connection is still served
C28_Witness ==
    /\ guest_msg.stage = "loop"
    /\ guest_msg.type = "Complete"
    /\ guest_msg.id # VsockJob
    /\ guest_conns[guest_msg.conn].pc = "loop"
    /\ ~job_result.some

\* C29: the cancel request for a Running job whose runner has a registered
\* channel is answered 200, leaves the job Complete(Cancelled) with
\* finished_at set, and puts one JobCancelled of the job into the channel of
\* that runner and nothing into the channels of the others.
C29_CancelRunningNotifiesRunner ==
    [][(/\ http'.op = "cancel"
        /\ http'.id \in DOMAIN jobs
        /\ status_of(jobs, http'.id) = Running
        /\ jobs[http'.id].runner_id \in DOMAIN runners)
       => LET j == http'.id
              r == jobs[j].runner_id
          IN  /\ http'.code = OK
              /\ status_of(jobs', j) = Complete("Cancelled")
              /\ jobs'[j].finished_at # NULL
              /\ Count(runners'[r], JobCancelled(j)) = Count(runners[r], JobCancelled(j)) + 1
              /\ \A o \in DOMAIN runners \ {r} : runners'[o] = runners[o]]_vars

\* the guards that hold an address, and the address a guard stands for
LiveGuards == {g \in 1..MaxIpGuards : ip_guards[g].state = "held"}
GuardIp(g) == IF ip_guards[g].state = "taken" THEN ip_guards[g].took ELSE ip_guards[g].ip

\* C30: every address handed out is one of the pool, 10.0.0.2 and up; no
\* address is with two guards that hold or took one, nor free while a guard
\* holds or took it; a guard is refused only by an empty pool, and is refused
\* when live guards hold every address; an address comes back to the pool
\* only from a guard that was dropped, never from one that was taken.
C30_IpPool ==
    /\ [](/\ \A g \in 1..MaxIpGuards :
                ip_guards[g].state \in {"held", "taken"} =>
                    /\ GuardIp(g) \in 1..MaxIps
                    /\ Ipv4Addr_new(GuardIp(g))[4] \in 2..254
                    /\ GuardIp(g) \notin FreeIps
                    /\ \A h \in 1..MaxIpGuards \ {g} :
                           ip_guards[h].state \in {"held", "taken"} => GuardIp(h) # GuardIp(g)
          /\ Len(free_ips) = Cardinality(FreeIps))
    /\ [][/\ \A g \in 1..MaxIpGuards :
                ip_guards[g].state = "unused" /\ ip_guards'[g].state # "unused" =>
                    /\ ip_guards'[g].state = "refused" <=> free_ips = <<>>
                    /\ Cardinality(LiveGuards) = MaxIps => ip_guards'[g].state = "refused"
          /\ \A ip \in 1..MaxIps :
                ip \notin FreeIps /\ ip \in FreeIps' =>
                    /\ \E g \in 1..MaxIpGuards :
                           ip_guards[g].state = "dropped" /\ ip_guards[g].ip = ip
                    /\ \A g \in 1..MaxIpGuards :
                           ip_guards[g].state \in {"held", "taken"} => GuardIp(g) # ip]_vars

\* C30 witness: live guards hold every address of the pool and a further
\* guard was refused
C30_Witness ==
    /\ Cardinality(LiveGuards) = MaxIps
    /\ \E g \in 1..MaxIpGuards : ip_guards[g].state = "refused"
    /\ free_ips = <<>>

\* the platform entries a cloud block stands for
EntriesOf(cloud) == IF cloud.platforms.some THEN cloud.platforms.v ELSE DefaultPlatforms

\* a memory string that is a decimal numeral followed by mb or gb in any case
WellFormed(s) ==
    /\ s.digits # <<>>
    /\ \A i \in DOMAIN s.digits : s.digits[i] \in 0..9
    /\ s.unit \in {"mb", "MB", "Mb", "mB", "gb", "GB", "Gb", "gB"}

\* mb is the size that the memory string s states, with 1 gb = 1024 mb
StatesMb(s, mb) ==
    IF s.unit \in {"gb", "GB", "Gb", "gB"}
    THEN mb % 1024 = 0 /\ mb \div 1024 = parse_u32(s.digits).num
    ELSE mb = parse_u32(s.digits).num

\* the memory strings of a cloud block and of its entries
MemoryOf(cloud) ==
    (IF cloud.memory.some THEN {cloud.memory.v} ELSE {}) \cup
    {EntriesOf(cloud)[i].memory.v :
        i \in {k \in DOMAIN EntriesOf(cloud) : EntriesOf(cloud)[k].memory.some}}

UnknownPlatform(cloud) ==
    \E i \in DOMAIN EntriesOf(cloud) : ~KnownPlatform(EntriesOf(cloud)[i].name)

\* C31: parsing a cloud-config yields one VM per platform entry, in the order
\* listed, each with the entry's own memory and cpus when given and the cloud
\* block's otherwise; a missing cloud block yields the default pair
\* (x86_64-linux and aarch64-darwin, 2 cpus and 4096 MB each); an unknown
\* platform name is a parse error whose message contains "Platform '"; memory
\* strings parse case-insensitively with 1 gb = 1024 mb.
C31_ParseCloudConfig ==
    final_cloud.parsed =>
        LET cloud == final_cloud.cloud
            r == final_cloud.result
            entries == EntriesOf(cloud)
            cloud_memory == IF cloud.memory.some THEN cloud.memory.v ELSE DEFAULT_MEMORY
        IN  /\ (~UnknownPlatform(cloud) /\ \A s \in MemoryOf(cloud) : WellFormed(s)) =>
                  /\ r.ok
                  /\ Len(r.vms) = Len(entries)
                  /\ \A i \in DOMAIN entries :
                        /\ r.vms[i].platform = entries[i].name
                        /\ StatesMb(IF entries[i].memory.some THEN entries[i].memory.v
                                    ELSE cloud_memory, r.vms[i].memory_size_mb)
                        /\ r.vms[i].cpu_count =
                               IF entries[i].cpus.some THEN entries[i].cpus.v
                               ELSE IF cloud.cpus.some THEN cloud.cpus.v ELSE 2
            /\ cloud = NoCloud =>
                  r = CloudOk(<<[cpu_count |-> 2, memory_size_mb |-> 4096,
                                 platform |-> "x86_64-linux"],
                                [cpu_count |-> 2, memory_size_mb |-> 4096,
                                 platform |-> "aarch64-darwin"]>>)
            /\ UnknownPlatform(cloud) => ~r.ok /\ ~r.panic /\ contains(r.err, "Platform '")

\* the step writes frames of the connection handler of runner r to its socket:
\* the channel of r is untouched and the unread frames of the socket are not
\* what is left of the old ones
HandlerWrote(r) ==
    /\ r \in DOMAIN runners /\ r \in DOMAIN runners'
    /\ runners'[r] = runners[r]
    /\ to_agent'[r] # <<>>
    /\ to_agent'[r] # to_agent[r]
    /\ to_agent[r] = <<>> \/ to_agent'[r] # Tail(to_agent[r])

\* the step writes the oldest frame of the channel of runner r to its socket
ChannelForwarded(r) ==
    /\ r \in DOMAIN runners /\ r \in DOMAIN runners'
    /\ runners[r] # <<>>
    /\ runners'[r] = Tail(runners[r])
    /\ to_agent'[r] = Append(to_agent[r], Head(runners[r]))

\* C32: for each runner connection, server-to-runner messages are written to
\* the socket in the order in which the control plane produced them, whether
\* the connection's own handler produced them or another task queued them on
\* the runner's channel: the channel is written oldest first, and the handler
\* writes a frame of its own only when no frame queued earlier is still waiting
\* in the channel.
C32_FifoPerConnection ==
    [][\A r \in RunnerIds :
          /\ (r \in DOMAIN runners /\ r \in DOMAIN runners' /\
              Len(runners'[r]) < Len(runners[r])) => ChannelForwarded(r)
          /\ HandlerWrote(r) => runners[r] = <<>>]_vars

\* task t is suspended in status_tx.send(event).await
SuspendedOnSend(t) == tasks[t].pc \in {"register_send", "update_send"} /\ ChannelFull

\* task t waits for the write lock of JobManager.jobs, which another task holds
WaitsForLock(t) == tasks[t].pc \in {"register", "update"} /\ jobs_lock \notin {"free", t}

\* the main loop, the only receiver of the status channel, cannot run again:
\* it is suspended on a send to the full channel, or waits for the lock held
\* by a task that is
Deadlocked ==
    \/ SuspendedOnSend("main")
    \/ WaitsForLock("main") /\ SuspendedOnSend("handler")

\* C33: no task holds the job-map lock while it is suspended on a channel
\* send, so the main loop, the completion handler and the bounded status
\* channel never deadlock, whatever the occupancy of the channel.
C33_NoLockAcrossSuspension ==
    /\ \A t \in Tasks : SuspendedOnSend(t) => jobs_lock # t
    /\ ~Deadlocked

\* the moves of a job's status that the job manager allows
AllowedMove(old, new) ==
    \/ old = Queued /\ new = Running
    \/ old = Queued /\ new = Complete("Cancelled")
    \/ old = Running /\ new.tag = "Complete"

\* C34: the agent's local job status only ever moves Queued -> Running,
\* Queued -> Complete(Cancelled) or Running -> Complete(_), a job entering the
\* map as Queued; a requested transition that is none of these leaves the
\* status unchanged and emits no status event; the agent sends at most one
\* UpdateJobStatus per job.
C34_AllowedTransitionsOnly ==
    /\ [](\A j \in JobIds : updates[j] <= 1)
    /\ [][/\ \A j \in JobIds :
                local_jobs'[Agent][j] # local_jobs[Agent][j] =>
                    \/ local_jobs[Agent][j] = NoJob /\ local_jobs'[Agent][j] = Queued
                    \/ AllowedMove(local_jobs[Agent][j], local_jobs'[Agent][j])
          /\ \A t \in Tasks :
                (tasks[t].pc = "update" /\ tasks'[t].pc # "update" /\
                 ~AllowedMove(local_jobs[Agent][tasks[t].job], tasks[t].status)) =>
                    /\ local_jobs' = local_jobs
                    /\ tasks'[t].pc = Idle(t)
                    /\ job_status_rx' = job_status_rx]_vars

\* C34 witness: the completion of a job's VM was handled after the job had been
\* marked Cancelled and was rejected, and the one UpdateJobStatus was sent
C34_Witness ==
    \E j \in JobIds :
        /\ local_jobs[Agent][j] = Complete("Cancelled")
        /\ emitted[j] = 1 /\ completion_rx = <<>> /\ tasks["handler"].pc = "recv"
        /\ job_status_rx = <<>>
        /\ updates[j] = 1

\* C35: every job that becomes Running eventually reaches a Complete status,
\* even if its runner disconnects and never reports: the job carries a
\* started_at, so the timeout sweeper eventually selects it and completes it.
C35_RunningEventuallyComplete ==
    \A j \in JobIds :
        (j \in DOMAIN jobs /\ status_of(jobs, j) = Running) ~>
            (j \in DOMAIN jobs /\ status_of(jobs, j).tag = "Complete")

\* agent a is connected, with room in its channel, and runs the VM of job j,
\* which is Running in the table
RunsConnected(a, j) ==
    /\ j \in DOMAIN jobs
    /\ status_of(jobs, j) = Running
    /\ vms[a][j].state = "running"
    /\ conn[a] # NULL
    /\ conn[a] \in DOMAIN runners
    /\ runners[conn[a]] = <<>>

\* the step queues msg on the channel of agent a's connection
QueuedFor(a, msg) ==
    /\ conn[a] \in DOMAIN runners'
    /\ runners'[conn[a]] = Append(runners[conn[a]], msg)

\* C36: if an agent lost its connection while running job J and reconnected,
\* a later cancel or timeout of J is still delivered to it as JobCancelled or
\* JobTimedOut: a cancel that succeeds, and a sweep that expires J, queue the
\* frame on the channel of the connection the agent has now, and the sweeper
\* does not complete J itself as if the runner were absent.
C36_StopReachesReconnectedAgent ==
    [][\A a \in Agents, j \in JobIds :
          RunsConnected(a, j) =>
              /\ (http'.op = "cancel" /\ http'.id = j /\ http'.code = OK) =>
                     QueuedFor(a, JobCancelled(j))
              /\ (status_of(jobs', j) = Complete("TimedOut") /\ local_jobs' = local_jobs) =>
                     FALSE]_vars

\* the rows that say they retry row a
Successors(a) == {b \in DOMAIN jobs : jobs[b].previous_job_id = a}

\* C37: each job has at most one retry successor: after any sequence of retry
\* calls, repeated retries of one job included, at most one job B has
\* previous_job_id = A, and that B is A.retried_job_id.
C37_OneRetrySuccessor ==
    \A a \in DOMAIN jobs :
        /\ Cardinality(Successors(a)) <= 1
        /\ \A b \in Successors(a) : jobs[a].retried_job_id = b

\* C38: every VmCompletionEvent for a job that the agent has not already marked
\* terminal results in exactly one UpdateJobStatus with a Complete status for
\* that job, however the completion handler interleaves with register_job and
\* set_job_running of the main loop: the handler's complete_job moves the job
\* to Complete and emits the event, and no job is reported twice.
C38_CompletionReported ==
    /\ [](\A j \in JobIds : updates[j] <= 1)
    /\ [][(/\ tasks["handler"].pc = "update"
           /\ tasks'["handler"].pc # "update"
           /\ local_jobs[Agent][tasks["handler"].job].tag # "Complete") =>
              /\ local_jobs'[Agent][tasks["handler"].job] = tasks["handler"].status
              /\ tasks'["handler"].pc = "update_send"]_vars


\* the jobs the agent has claimed and whose VM has not finished: the VM is
\* being created or runs
ClaimedUnfinished == {j \in JobIds : sup[j].pc \in {"creating", "waiting"}}

\* the claimed jobs fit in what the resource manager can allocate
ClaimsFit ==
    /\ SumOver(ClaimedUnfinished, [j \in JobIds |-> sup[j].cfg.cpu_count])
           <= rm_limits.max_cpus
    /\ SumOver(ClaimedUnfinished, [j \in JobIds |-> sup[j].cfg.memory_size_mb])
           <= rm_limits.max_memory_mb

\* a step in which the creation of a claimed job's VM ends because
\* allocate_resources rejected it
AllocationRejected(j) ==
    /\ sup[j].pc = "creating"
    /\ sup'[j].pc = "cleanup"
    /\ ~check_limits(allocation, sup[j].cfg.cpu_count, sup[j].cfg.memory_size_mb,
                     rm_limits)

\* C39: the agent never holds claims it cannot run: the combined cpus and
\* memory of the jobs it has claimed and not finished stay within the limits
\* of the resource manager, and no claimed job fails VM creation because its
\* allocation is rejected.
C39_ClaimsFit ==
    /\ []ClaimsFit
    /\ [][\A j \in JobIds : ~AllocationRejected(j)]_vars


\* the sums over the registered job entries
RegisteredCpus ==
    SumOver(DOMAIN allocation.jobs,
            [j \in DOMAIN allocation.jobs |-> allocation.jobs[j].cpu_count])
RegisteredMemory ==
    SumOver(DOMAIN allocation.jobs,
            [j \in DOMAIN allocation.jobs |-> allocation.jobs[j].memory_size_mb])

\* C40: in every reachable state the counters of the resource manager equal
\* the sums over its registered job entries: allocated cpus is the sum of
\* cpu_count and allocated memory the sum of the memory sizes, for any
\* sequence of allocate_resources, guard drop, take and release_job calls,
\* two allocations under the same job id included.
C40_CountersMatchEntries ==
    /\ allocation.allocated_cpus = RegisteredCpus
    /\ allocation.allocated_memory = RegisteredMemory

====
